---- MODULE Spec2Model ----
(***************************************************************************)
(* A model of the response post-processing and model-selection pipeline of *)
(* the Vmarketing backend:                                                 *)
(*   - the EnhancedLLMService singleton (services/enhancedLLMService.js):  *)
(*     detectors, model selection, response strategy, and the concurrent   *)
(*     generateEnhancedResponse invocations that share it;                 *)
(*   - the response formatter (utils/responseFormatter.js): cleaning,      *)
(*     sentence split, content classification and the five renderers;     *)
(*   - the response quality analyzer (utils/responseQualityAnalyzer.js):   *)
(*     the eight metrics, the overall score and the three label lists;     *)
(*   - the exported operations called with values that are not strings;    *)
(*   - the Llama service (services/llamaService.js) behind POST /api/llama *)
(*     with its conversation utilities: the messages posted upstream, the  *)
(*     JSON payloads and their fallbacks, and the error classification.    *)
(*                                                                         *)
(* Text is modelled as TLA+ strings, character by character: includes,     *)
(* toLowerCase, split and the regular-expression passes are computed on    *)
(* the characters.  Numbers that are floats in the source are kept in      *)
(* tenths (temperature 0.6 is 6, confidence 0.5 is 5).                     *)
(***************************************************************************)
EXTENDS Integers, Sequences, FiniteSets, TLC

VARIABLES
    models,            \* this.models of the service singleton
    responsePatterns,  \* this.responsePatterns of the service singleton
    proc,              \* the generateEnhancedResponse invocations in flight
    calls,             \* invocations started so far
    text,              \* formatter: the string handed to the exported function
    sentences,         \* formatter: the sentence list of the last format call
    structure,         \* formatter: the ContentStructure of the last format call
    out,               \* formatter: the string returned by the last call
    applied,           \* formatter: calls of the exported function made so far
    input,             \* detectors: the text handed to the selector
    analysis,          \* detectors: the analysis record computed for input
    selection,         \* detectors: the record analyzeInputAndSelectModel returned, as its caller reads it
    qualityRequest,    \* quality analyzer: the arguments of analyzeResponseQuality
    qualityAnalysis,   \* quality analyzer: the analysis record it returned
    argument,          \* a JavaScript value handed to one of the exported operations
    returned,          \* how that call ended: the value returned, or the error thrown
    request,           \* llama service: the operation requested and its arguments
    upstream,          \* llama service: the messages posted to the provider and its answer
    delivered,         \* llama service: what the service call returned or threw
    reply              \* llama route: the HTTP answer of POST /api/llama

vars == <<models, responsePatterns, proc, calls, text, sentences, structure, out, applied, input, analysis, selection,
          qualityRequest, qualityAnalysis, argument, returned,
          request, upstream, delivered, reply>>

selectorVars == <<models, responsePatterns, proc, calls>>
formatterVars == <<text, sentences, structure, out, applied>>
detectorVars == <<input, analysis, selection>>
analyzerVars == <<qualityRequest, qualityAnalysis, argument, returned>>
llamaVars == <<request, upstream, delivered, reply>>

-----------------------------------------------------------------------------
(* JavaScript string primitives *)

CharAt(s, i) == SubSeq(s, i, i)

\* String.prototype.includes
Includes(s, k) ==
    \E i \in 1..(Len(s) - Len(k) + 1) : SubSeq(s, i, i + Len(k) - 1) = k

IncludesAny(s, ks) == \E k \in ks : Includes(s, k)

\* concatenation of the strings ps[lo], ..., ps[hi]
RECURSIVE ConcatRange(_, _, _)
ConcatRange(ps, lo, hi) ==
    IF lo > hi THEN ""
    ELSE IF lo = hi THEN ps[lo]
    ELSE LET mid == (lo + hi) \div 2
         IN ConcatRange(ps, lo, mid) \o ConcatRange(ps, mid + 1, hi)

ConcatAll(ps) == ConcatRange(ps, 1, Len(ps))

UpperCaseLetters == "ABCDEFGHIJKLMNOPQRSTUVWXYZ"
LowerCaseLetters == "abcdefghijklmnopqrstuvwxyz"

UpperCaseSet == {CharAt(UpperCaseLetters, i) : i \in 1..26}
LowerCaseSet == {CharAt(LowerCaseLetters, i) : i \in 1..26}

LowerOf == [c \in UpperCaseSet |->
              CharAt(LowerCaseLetters, CHOOSE i \in 1..26 : CharAt(UpperCaseLetters, i) = c)]
UpperOf == [c \in LowerCaseSet |->
              CharAt(UpperCaseLetters, CHOOSE i \in 1..26 : CharAt(LowerCaseLetters, i) = c)]

\* String.prototype.toLowerCase, letter by letter
ToLowerCase(s) ==
    IF \A i \in 1..Len(s) : CharAt(s, i) \notin UpperCaseSet THEN s
    ELSE ConcatAll([i \in 1..Len(s) |->
                      IF CharAt(s, i) \in UpperCaseSet THEN LowerOf[CharAt(s, i)]
                      ELSE CharAt(s, i)])

\* String.prototype.toUpperCase of one character
ToUpperCase(c) == IF c \in LowerCaseSet THEN UpperOf[c] ELSE c

\* Number of positions of s holding a character of the set cs
CountChars(s, cs) == Cardinality({i \in 1..Len(s) : CharAt(s, i) \in cs})

\* Number of maximal runs of characters of cs in s
CountRuns(s, cs) ==
    Cardinality({i \in 1..Len(s) :
                    /\ CharAt(s, i) \in cs
                    /\ (i = Len(s) \/ CharAt(s, i + 1) \notin cs)})

Min(a, b) == IF a <= b THEN a ELSE b

-----------------------------------------------------------------------------
(* EnhancedLLMService: constructor *)

ModelKeys == {"llama", "gpt4", "claude", "gemini"}

\* this.models as the constructor leaves it (temperature in tenths)
ConstructorModels ==
    [llama  |-> [name |-> "meta/llama-3.1-70b-instruct",
                 baseURL |-> "https://integrate.api.nvidia.com/v1/chat/completions",
                 strengths |-> <<"conversation", "creative_writing", "analysis">>,
                 temperature |-> 6, maxTokens |-> 3072],
     gpt4   |-> [name |-> "gpt-4",
                 baseURL |-> "https://api.openai.com/v1/chat/completions",
                 strengths |-> <<"reasoning", "structured_analysis", "technical">>,
                 temperature |-> 4, maxTokens |-> 4000],
     claude |-> [name |-> "claude-3-sonnet-20240229",
                 baseURL |-> "https://api.anthropic.com/v1/messages",
                 strengths |-> <<"empathy", "customer_service", "detailed_analysis">>,
                 temperature |-> 3, maxTokens |-> 4000],
     gemini |-> [name |-> "gemini-pro",
                 baseURL |-> "https://generativelanguage.googleapis.com/v1beta/models/gemini-pro:generateContent",
                 strengths |-> <<"multimodal", "creative", "diverse_responses">>,
                 temperature |-> 7, maxTokens |-> 2048]]

PatternKeys == {"conversation", "analysis", "customer_service", "review"}

\* this.responsePatterns as the constructor leaves it
ConstructorPatterns ==
    [conversation     |-> [structure |-> <<"greeting", "main_content", "engagement", "closing">>,
                           tone |-> <<"friendly", "casual", "engaging">>,
                           length |-> "medium", complexity |-> "moderate"],
     analysis         |-> [structure |-> <<"summary", "key_findings", "insights", "recommendations">>,
                           tone |-> <<"professional", "objective", "detailed">>,
                           length |-> "long", complexity |-> "high"],
     customer_service |-> [structure |-> <<"acknowledgment", "understanding", "solution", "follow_up">>,
                           tone |-> <<"empathetic", "professional", "helpful">>,
                           length |-> "medium", complexity |-> "moderate"],
     review           |-> [structure |-> <<"experience", "highlights", "details", "recommendation">>,
                           tone |-> <<"personal", "authentic", "informative">>,
                           length |-> "medium", complexity |-> "moderate"]]

-----------------------------------------------------------------------------
(* EnhancedLLMService: the six sub-analyses of the input *)

\* the content-type detector with the analysis test moved in front of the
\* conversation test
detectContentTypeAnalysisFirst(in) ==
    LET t == ToLowerCase(in)
    IN IF Includes(t, "analyze") \/ Includes(t, "analysis") \/ Includes(t, "sentiment")
            THEN "analysis"
       ELSE IF Includes(t, "hello") \/ Includes(t, "hi") \/ Includes(t, "how are you")
            THEN "conversation"
       ELSE IF Includes(t, "review") \/ Includes(t, "experience") \/ Includes(t, "visit")
            THEN "review"
       ELSE IF Includes(t, "problem") \/ Includes(t, "issue") \/ Includes(t, "complaint")
            THEN "customer_service"
       ELSE IF Includes(t, "question") \/ Includes(t, "help") \/ Includes(t, "explain")
            THEN "inquiry"
       ELSE "general"

detectContentType(in) ==
    LET t == ToLowerCase(in)
    IN IF Includes(t, "hello") \/ Includes(t, "hi") \/ Includes(t, "how are you")
            THEN "conversation"
       ELSE IF Includes(t, "analyze") \/ Includes(t, "analysis") \/ Includes(t, "sentiment")
            THEN "analysis"
       ELSE IF Includes(t, "review") \/ Includes(t, "experience") \/ Includes(t, "visit")
            THEN "review"
       ELSE IF Includes(t, "problem") \/ Includes(t, "issue") \/ Includes(t, "complaint")
            THEN "customer_service"
       ELSE IF Includes(t, "question") \/ Includes(t, "help") \/ Includes(t, "explain")
            THEN "inquiry"
       ELSE "general"

\* split(' ').length is the number of spaces plus one; split(/[.!?]+/).length is
\* the number of delimiter runs plus one; wordCount / sentenceCount > n is
\* compared without the division
assessComplexity(in) ==
    LET wordCount == CountChars(in, {" "}) + 1
        sentenceCount == CountRuns(in, {".", "!", "?"}) + 1
    IN IF wordCount > 100 /\ wordCount > 15 * sentenceCount THEN "high"
       ELSE IF wordCount > 50 /\ wordCount > 10 * sentenceCount THEN "medium"
       ELSE "low"

detectSentiment(in) ==
    LET t == ToLowerCase(in)
        positiveWords == {"good", "great", "amazing", "excellent", "love", "like", "happy", "satisfied"}
        negativeWords == {"bad", "terrible", "awful", "hate", "disappointed", "angry", "frustrated"}
        positiveCount == Cardinality({w \in positiveWords : Includes(t, w)})
        negativeCount == Cardinality({w \in negativeWords : Includes(t, w)})
    IN IF positiveCount > negativeCount THEN "positive"
       ELSE IF negativeCount > positiveCount THEN "negative"
       ELSE "neutral"

assessUrgency(in) ==
    LET t == ToLowerCase(in)
        urgentWords == {"urgent", "asap", "immediately", "emergency", "critical", "now"}
    IN IF \E w \in urgentWords : Includes(t, w) THEN "high" ELSE "normal"

\* the domain detector with the service test moved in front of the retail test
detectDomainServiceFirst(in) ==
    LET t == ToLowerCase(in)
    IN IF Includes(t, "restaurant") \/ Includes(t, "food") \/ Includes(t, "dining")
            THEN "restaurant"
       ELSE IF Includes(t, "hotel") \/ Includes(t, "accommodation") \/ Includes(t, "stay")
            THEN "hospitality"
       ELSE IF Includes(t, "service") \/ Includes(t, "support") \/ Includes(t, "help")
            THEN "service"
       ELSE IF Includes(t, "product") \/ Includes(t, "purchase") \/ Includes(t, "buy")
            THEN "retail"
       ELSE IF Includes(t, "technology") \/ Includes(t, "app") \/ Includes(t, "software")
            THEN "technology"
       ELSE "general"

detectDomain(in) ==
    LET t == ToLowerCase(in)
    IN IF Includes(t, "restaurant") \/ Includes(t, "food") \/ Includes(t, "dining")
            THEN "restaurant"
       ELSE IF Includes(t, "hotel") \/ Includes(t, "accommodation") \/ Includes(t, "stay")
            THEN "hospitality"
       ELSE IF Includes(t, "product") \/ Includes(t, "purchase") \/ Includes(t, "buy")
            THEN "retail"
       ELSE IF Includes(t, "service") \/ Includes(t, "support") \/ Includes(t, "help")
            THEN "service"
       ELSE IF Includes(t, "technology") \/ Includes(t, "app") \/ Includes(t, "software")
            THEN "technology"
       ELSE "general"

inferUserIntent(in) ==
    LET t == ToLowerCase(in)
    IN IF Includes(t, "?") THEN "question"
       ELSE IF Includes(t, "help") \/ Includes(t, "support") THEN "support"
       ELSE IF Includes(t, "review") \/ Includes(t, "feedback") THEN "feedback"
       ELSE IF Includes(t, "complain") \/ Includes(t, "issue") THEN "complaint"
       ELSE IF Includes(t, "suggest") \/ Includes(t, "recommend") THEN "recommendation"
       ELSE "general"

\* the analysis record built at the head of analyzeInputAndSelectModel
analyzeInput(in) ==
    [contentType |-> detectContentType(in),
     complexity  |-> assessComplexity(in),
     sentiment   |-> detectSentiment(in),
     urgency     |-> assessUrgency(in),
     domain      |-> detectDomain(in),
     userIntent  |-> inferUserIntent(in)]

-----------------------------------------------------------------------------
(* EnhancedLLMService: model selection, strategy, confidence *)

\* returns the key of the registry entry whose object the code returns
\* the selection with the review / general-domain rule moved in front of the
\* analysis / high-complexity rule
selectOptimalModelCreativeFirst(a) ==
    IF a.contentType = "customer_service" \/ a.userIntent = "complaint" THEN "claude"
    ELSE IF a.contentType = "review" \/ a.domain = "general" THEN "gemini"
    ELSE IF a.contentType = "analysis" \/ a.complexity = "high" THEN "gpt4"
    ELSE "llama"

selectOptimalModel(a) ==
    IF a.contentType = "customer_service" \/ a.userIntent = "complaint" THEN "claude"
    ELSE IF a.contentType = "analysis" \/ a.complexity = "high" THEN "gpt4"
    ELSE IF a.contentType = "review" \/ a.domain = "general" THEN "gemini"
    ELSE "llama"

\* An array-valued field of a strategy is a reference: either to the array
\* object held by responsePatterns[pattern] (pattern # "none") or to an array
\* literal created by the call (pattern = "none", own holds its elements).
PatternArray(pattern) == [pattern |-> pattern, own |-> <<>>]
NewArray(elements) == [pattern |-> "none", own |-> elements]

\* the elements a tone reference points at, in the given responsePatterns
ToneOf(ref, patterns) ==
    IF ref.pattern = "none" THEN ref.own ELSE patterns[ref.pattern].tone

StructureOf(ref, patterns) ==
    IF ref.pattern = "none" THEN ref.own ELSE patterns[ref.pattern].structure

\* the strategy object generateResponseStrategy builds and returns: the
\* chosen config's temperature and maxTokens, the pattern's arrays by
\* reference, then the urgency / sentiment / complexity adjustments
StrategyRecord(ms, ps, a, selectedModel) ==
    LET ct == a.contentType
        known == ct \in DOMAIN ps
        temperature0 == ms[selectedModel].temperature
        maxTokens0 == ms[selectedModel].maxTokens
        urgent == a.urgency = "high"
        negative == a.sentiment = "negative"
        high == a.complexity = "high"
    IN [model |-> selectedModel,
        temperature |-> IF urgent THEN Min(temperature0 + 2, 10) ELSE temperature0,
        maxTokens |-> IF high THEN Min((maxTokens0 * 3) \div 2, 8000) ELSE maxTokens0,
        structure |-> IF known THEN PatternArray(ct) ELSE NewArray(<<"main_content">>),
        tone |-> IF known THEN PatternArray(ct)
                 ELSE IF negative THEN NewArray(<<"professional", "empathetic">>)
                 ELSE NewArray(<<"professional">>),
        length |-> IF known THEN ps[ct].length ELSE "medium",
        complexity |-> IF known THEN ps[ct].complexity ELSE "moderate",
        enhancements |-> (IF urgent THEN <<"urgent_response">> ELSE <<>>)
                         \o (IF negative THEN <<"empathetic_tone">> ELSE <<>>)
                         \o (IF high THEN <<"detailed_explanation">> ELSE <<>>)]

\* strategy.tone.push('empathetic'): when strategy.tone is the pattern's own
\* array, the push lands in this.responsePatterns
PatternsAfterPush(ps, a) ==
    IF a.sentiment = "negative" /\ a.contentType \in DOMAIN ps
    THEN [ps EXCEPT ![a.contentType].tone = Append(@, "empathetic")]
    ELSE ps

\* a variant that writes the adjusted numbers into the registry entry
generateResponseStrategyWritingModel(ms, ps, a, selectedModel) ==
    LET st == StrategyRecord(ms, ps, a, selectedModel)
    IN [strategy |-> st,
        models |-> [ms EXCEPT ![selectedModel].temperature = st.temperature,
                              ![selectedModel].maxTokens = st.maxTokens],
        responsePatterns |-> PatternsAfterPush(ps, a)]

\* a variant that pushes the complexity tag before the sentiment tag
generateResponseStrategyTagsExchanged(ms, ps, a, selectedModel) ==
    LET st == StrategyRecord(ms, ps, a, selectedModel)
    IN [strategy |-> [st EXCEPT !.enhancements =
                        (IF a.urgency = "high" THEN <<"urgent_response">> ELSE <<>>)
                        \o (IF a.complexity = "high" THEN <<"detailed_explanation">> ELSE <<>>)
                        \o (IF a.sentiment = "negative" THEN <<"empathetic_tone">> ELSE <<>>)],
        models |-> ms,
        responsePatterns |-> PatternsAfterPush(ps, a)]

\* generateResponseStrategy(analysis, selectedModel) run on the service whose
\* fields are ms (this.models) and ps (this.responsePatterns).  Returns the
\* strategy object and the service fields as the call leaves them.
generateResponseStrategy(ms, ps, a, selectedModel) ==
    [strategy |-> StrategyRecord(ms, ps, a, selectedModel),
     models |-> ms,
     responsePatterns |-> PatternsAfterPush(ps, a)]

calculateConfidence(a) ==
    Min(5 + (IF a.contentType # "general" THEN 2 ELSE 0)
          + (IF a.sentiment # "neutral" THEN 1 ELSE 0)
          + (IF a.domain # "general" THEN 1 ELSE 0)
          + (IF a.userIntent # "general" THEN 1 ELSE 0), 10)

\* analyzeInputAndSelectModel(input) on the service (ms, ps): the returned
\* record and the service fields afterwards
analyzeInputAndSelectModel(ms, ps, in) ==
    LET a == analyzeInput(in)
        selectedModel == selectOptimalModel(a)
        g == generateResponseStrategy(ms, ps, a, selectedModel)
    IN [result |-> [analysis |-> a,
                    selectedModel |-> selectedModel,
                    responseStrategy |-> g.strategy,
                    confidence |-> calculateConfidence(a)],
        models |-> g.models,
        responsePatterns |-> g.responsePatterns]


-----------------------------------------------------------------------------
(* The service singleton under concurrent generateEnhancedResponse calls *)

Procs == {"a", "b"}

MaxCalls == 2

Repeat(s, n) == ConcatAll([i \in 1..n |-> s])

\* more than 100 words in one sentence, with an urgency keyword
LongInput == "reply now" \o Repeat(" a", 100)

SelectorInputs ==
    {"hello there", "hello, this is bad", "so bad", "please analyze now",
     "my visit was awful", "we have an issue", "explain the app", LongInput,
     "so bad, " \o LongInput}

\* what a caller reads in a result record: every reference followed
Resolve(result, ps) ==
    [analysis |-> result.analysis,
     selectedModel |-> result.selectedModel,
     temperature |-> result.responseStrategy.temperature,
     maxTokens |-> result.responseStrategy.maxTokens,
     structure |-> StructureOf(result.responseStrategy.structure, ps),
     tone |-> ToneOf(result.responseStrategy.tone, ps),
     enhancements |-> result.responseStrategy.enhancements,
     confidence |-> result.confidence]

NoResult == analyzeInputAndSelectModel(ConstructorModels, ConstructorPatterns, "").result

IdleProc ==
    [pc |-> "idle", input |-> "", result |-> NoResult,
     solo |-> Resolve(NoResult, ConstructorPatterns),
     returned |-> Resolve(NoResult, ConstructorPatterns)]

FormatterIdle ==
    /\ text = ""
    /\ sentences = <<>>
    /\ structure = [type |-> "none"]
    /\ out = ""
    /\ applied = 0

\* the value of analysis before the selector has been called
NoAnalysis ==
    [contentType |-> "none", complexity |-> "none", sentiment |-> "none",
     urgency |-> "none", domain |-> "none", userIntent |-> "none"]

\* the value of selection before the selector has been called
NoSelection == [selectedModel |-> "none"]

DetectorIdle ==
    /\ input = ""
    /\ analysis = NoAnalysis
    /\ selection = NoSelection

\* the value of qualityRequest before analyzeResponseQuality has been called
NoRequest == [contentType |-> "none"]

\* the value of qualityAnalysis before analyzeResponseQuality has been called
NoQuality == [overallScore |-> "none"]

\* a JavaScript value: its typeof, and its string or number payload
JSValue(type, str, num) == [type |-> type, str |-> str, num |-> num]

Undefined == JSValue("undefined", "", 0)

\* the value of returned before any call
NoCall == [op |-> "none", threw |-> FALSE, value |-> Undefined]

QualityIdle ==
    /\ qualityRequest = NoRequest
    /\ qualityAnalysis = NoQuality

CallIdle ==
    /\ argument = Undefined
    /\ returned = NoCall

AnalyzerIdle == QualityIdle /\ CallIdle

\* the values of the llama service variables before any request
NoLlamaRequest == [op |-> "none"]
NoUpstream == [state |-> "idle"]
NoLlamaResult == [op |-> "none"]
NoReply == [status |-> 0]

LlamaIdle ==
    /\ request = NoLlamaRequest
    /\ upstream = NoUpstream
    /\ delivered = NoLlamaResult
    /\ reply = NoReply

Init ==
    /\ LlamaIdle
    /\ models = ConstructorModels
    /\ responsePatterns = ConstructorPatterns
    /\ proc = [p \in Procs |-> IdleProc]
    /\ calls = 0
    /\ FormatterIdle
    /\ DetectorIdle
    /\ AnalyzerIdle

\* generateEnhancedResponse(input, ...) up to the upstream request: the
\* analysis runs to completion, the messages are built and the request is sent.
\* (The await on analyzeInputAndSelectModel resumes in the same microtask
\* checkpoint, before any other request handler can start.)
Start(p, in) ==
    /\ proc[p].pc = "idle"
    /\ calls < MaxCalls
    /\ LET r == analyzeInputAndSelectModel(models, responsePatterns, in)
       IN /\ models' = r.models
          /\ responsePatterns' = r.responsePatterns
          /\ proc' = [proc EXCEPT ![p] =
                        [pc |-> "awaiting", input |-> in, result |-> r.result,
                         solo |-> Resolve(r.result, r.responsePatterns),
                         returned |-> IdleProc.returned]]
    /\ calls' = calls + 1
    /\ UNCHANGED <<formatterVars, detectorVars, analyzerVars, llamaVars>>

\* the upstream call resolves: the invocation returns
\* {success, response, analysis, model, strategy, confidence}
Respond(p) ==
    /\ proc[p].pc = "awaiting"
    /\ proc' = [proc EXCEPT ![p].pc = "returned",
                            ![p].returned = Resolve(proc[p].result, responsePatterns)]
    /\ UNCHANGED <<models, responsePatterns, calls, formatterVars, detectorVars, analyzerVars, llamaVars>>

\* the upstream call rejects: the catch block throws handleAPIError(error)
Fail(p) ==
    /\ proc[p].pc = "awaiting"
    /\ proc' = [proc EXCEPT ![p].pc = "failed"]
    /\ UNCHANGED <<models, responsePatterns, calls, formatterVars, detectorVars, analyzerVars, llamaVars>>

\* the route has answered; the invocation's records are dropped
Finish(p) ==
    /\ proc[p].pc \in {"returned", "failed"}
    /\ proc' = [proc EXCEPT ![p] = IdleProc]
    /\ UNCHANGED <<models, responsePatterns, calls, formatterVars, detectorVars, analyzerVars, llamaVars>>

Next ==
    \/ \E p \in Procs, in \in SelectorInputs : Start(p, in)
    \/ \E p \in Procs : Respond(p)
    \/ \E p \in Procs : Fail(p)
    \/ \E p \in Procs : Finish(p)

Spec == Init /\ [][Next]_vars

FreshResult(in) ==
    LET r == analyzeInputAndSelectModel(ConstructorModels, ConstructorPatterns, in)
    IN Resolve(r.result, r.responsePatterns)

\* C1: no cross-request mutable state in the selector: every result
\* analyzeInputAndSelectModel returns equals the result of a freshly
\* constructed service for the same input, and responsePatterns keeps its
\* initial value in every reachable state.
C1_NoCrossRequestState ==
    /\ responsePatterns = ConstructorPatterns
    /\ \A p \in Procs : proc[p].pc # "idle" => proc[p].solo = FreshResult(proc[p].input)

\* C2: concurrent invocations are safe: what an invocation finally returns
\* (analysis, strategy with its lists, confidence) equals what it would have
\* returned had nothing else run between its analysis and its return.
C2_ConcurrentInvocationsIsolated ==
    \A p \in Procs : proc[p].pc = "returned" => proc[p].returned = proc[p].solo

\* C3: the ModelConfig registry is read-only after initialization: no
\* sequence of calls changes any field of the four registry entries.
C3_RegistryReadOnly == models = ConstructorModels

\* an invocation whose strategy carries a raised temperature and scaled
\* maxTokens, both different from its registry entry's
C3_Witness ==
    \E p \in Procs :
        /\ proc[p].pc # "idle"
        /\ proc[p].result.analysis.urgency = "high"
        /\ proc[p].result.analysis.complexity = "high"
        /\ proc[p].result.responseStrategy.temperature
             = models[proc[p].result.selectedModel].temperature + 2
        /\ proc[p].result.responseStrategy.maxTokens
             = (models[proc[p].result.selectedModel].maxTokens * 3) \div 2

-----------------------------------------------------------------------------
(* Response formatter: helpers *)

(***************************************************************************)
(* Characters outside ASCII are written with stand-ins that keep their     *)
(* length in UTF-16 code units (what String.length, split and the regular  *)
(* expressions see): a two-unit emoji is "^" followed by a letter, a       *)
(* one-unit symbol is a single character.                                  *)
(*   "^a" memo          "+"  sparkles      "^w" warning      "^s" star     *)
(*   "^h" house         "^v" money bag     "^i" light bulb   "^t" target   *)
(*   "^x" bar chart     "^f" magnifier     "^j" smiling face "^c" clipboard*)
(*   "^r" rocket        "^g" chart rising  "^p" thought      "^q" thinking *)
(*   "^b" speech        "^k" handshake     "^z" wrench       "^y" gift     *)
(*   "^d" telephone     "^n" pushpin       "@"  bullet                     *)
(***************************************************************************)

\* the characters \s matches
WhiteSpace == {" ", "\t", "\n", "\r", "\f"}

\* the line terminators of the regular expression dialect
LineTerminators == {"\n", "\r"}

\* the first index from index from on whose character is not in cs, Len(s) + 1 if none
FirstNotIn(s, from, cs) ==
    CHOOSE i \in from..(Len(s) + 1) :
        /\ i = Len(s) + 1 \/ CharAt(s, i) \notin cs
        /\ \A j \in from..(i - 1) : CharAt(s, j) \in cs

\* the last index whose character is not in cs, 0 if none
LastNotIn(s, cs) ==
    LET k == CHOOSE k \in 0..Len(s) :
                /\ k = Len(s) \/ CharAt(s, Len(s) - k) \notin cs
                /\ \A j \in 0..(k - 1) : CharAt(s, Len(s) - j) \in cs
    IN Len(s) - k

\* String.prototype.trim
Trim(s) ==
    LET first == FirstNotIn(s, 1, WhiteSpace)
    IN IF first > Len(s) THEN "" ELSE SubSeq(s, first, LastNotIn(s, WhiteSpace))

\* Array.prototype.join
Join(ss, sep) ==
    ConcatAll([i \in 1..Len(ss) |-> IF i = 1 THEN ss[i] ELSE sep \o ss[i]])

\* Array.prototype.slice(from, to) with 0-based from and exclusive to
Slice(ss, from, to) == SubSeq(ss, from + 1, Min(to, Len(ss)))

\* the splitter with the question mark left out of the delimiters
SplitSentencesAtStops(t) ==
    LET delim == {".", "!"}
        starts == {i \in 1..Len(t) :
                     CharAt(t, i) \notin delim /\ (i = 1 \/ CharAt(t, i - 1) \in delim)}
        startOf(k) == CHOOSE i \in starts : Cardinality({j \in starts : j <= i}) = k
        endOf(i) == IF \E j \in i..Len(t) : CharAt(t, j) \in delim
                    THEN (CHOOSE j \in i..Len(t) :
                            CharAt(t, j) \in delim /\ \A m \in i..(j - 1) : CharAt(t, m) \notin delim) - 1
                    ELSE Len(t)
        pieces == [k \in 1..Cardinality(starts) |-> Trim(SubSeq(t, startOf(k), endOf(startOf(k))))]
        NonEmpty(x) == x # ""
    IN SelectSeq(pieces, NonEmpty)

\* text.split(/[.!?]+/).map(s => s.trim()).filter(s => s.length > 0)
SplitSentences(t) ==
    LET delim == {".", "!", "?"}
        starts == {i \in 1..Len(t) :
                     CharAt(t, i) \notin delim /\ (i = 1 \/ CharAt(t, i - 1) \in delim)}
        startOf(k) == CHOOSE i \in starts : Cardinality({j \in starts : j <= i}) = k
        endOf(i) == IF \E j \in i..Len(t) : CharAt(t, j) \in delim
                    THEN (CHOOSE j \in i..Len(t) :
                            CharAt(t, j) \in delim /\ \A m \in i..(j - 1) : CharAt(t, m) \notin delim) - 1
                    ELSE Len(t)
        pieces == [k \in 1..Cardinality(starts) |-> Trim(SubSeq(t, startOf(k), endOf(startOf(k))))]
        NonEmpty(x) == x # ""
    IN SelectSeq(pieces, NonEmpty)

\* sentences.filter(s => keywords.some(k => s.toLowerCase().includes(k)))
FilterIncluding(ss, keywords) ==
    LET Test(x) == IncludesAny(ToLowerCase(x), keywords)
    IN SelectSeq(ss, Test)

\* the value of a template literal holding the result of sentences.find(...):
\* the first match, or undefined
FindIncluding(ss, keywords) ==
    LET m == FilterIncluding(ss, keywords)
    IN IF m = <<>> THEN [found |-> FALSE, value |-> "undefined"]
       ELSE [found |-> TRUE, value |-> m[1]]

capitalizeFirst(str) ==
    IF str = "" THEN str
    ELSE ToUpperCase(CharAt(str, 1)) \o SubSeq(str, 2, Len(str))

\* the lines of a bulleted section with the cap of its slice left out
BulletLinesUncapped(items, cap, prefix) ==
    ConcatAll([i \in 1..Len(items) |->
                 prefix \o capitalizeFirst(items[i]) \o ".\n"])

\* items.slice(0, cap).forEach(x => formatted += prefix + capitalizeFirst(x) + ".\n")
BulletLines(items, cap, prefix) ==
    ConcatAll([i \in 1..Min(cap, Len(items)) |->
                 prefix \o capitalizeFirst(items[i]) \o ".\n"])

\* the same with the prefix `   ${index + 1}. `
NumberedLines(items, cap) ==
    ConcatAll([i \in 1..Min(cap, Len(items)) |->
                 "   " \o CharAt("123456789", i) \o ". " \o capitalizeFirst(items[i]) \o ".\n"])

-----------------------------------------------------------------------------
(* Response formatter: content structure analysis *)

\* the topic extraction with app left out of the technology triggers
extractTopicKeywordsWithoutApp(t) ==
    LET groups ==
            (IF IncludesAny(t, {"food", "restaurant", "dining", "meal"})
                THEN <<"restaurant", "food", "dining">> ELSE <<>>)
         \o (IF IncludesAny(t, {"hotel", "accommodation", "room", "stay"})
                THEN <<"hotel", "accommodation", "travel">> ELSE <<>>)
         \o (IF IncludesAny(t, {"product", "item", "purchase", "buy"})
                THEN <<"product", "shopping", "consumer">> ELSE <<>>)
         \o (IF IncludesAny(t, {"service", "support", "help", "assistance"})
                THEN <<"service", "support", "customer care">> ELSE <<>>)
         \o (IF IncludesAny(t, {"software", "technology", "digital"})
                THEN <<"technology", "software", "digital">> ELSE <<>>)
    IN groups

extractTopicKeywords(t) ==
    LET groups ==
            (IF IncludesAny(t, {"food", "restaurant", "dining", "meal"})
                THEN <<"restaurant", "food", "dining">> ELSE <<>>)
         \o (IF IncludesAny(t, {"hotel", "accommodation", "room", "stay"})
                THEN <<"hotel", "accommodation", "travel">> ELSE <<>>)
         \o (IF IncludesAny(t, {"product", "item", "purchase", "buy"})
                THEN <<"product", "shopping", "consumer">> ELSE <<>>)
         \o (IF IncludesAny(t, {"service", "support", "help", "assistance"})
                THEN <<"service", "support", "customer care">> ELSE <<>>)
         \o (IF IncludesAny(t, {"app", "software", "technology", "digital"})
                THEN <<"technology", "software", "digital">> ELSE <<>>)
        FirstSeen(i) == \A j \in 1..(i - 1) : groups[j] # groups[i]
        keep == {i \in 1..Len(groups) : FirstSeen(i)}
    IN [k \in 1..Cardinality(keep) |->
          groups[CHOOSE i \in keep : Cardinality({j \in keep : j <= i}) = k]]

\* the type detection at the head of analyzeEnhancedContentStructure
\* the classifier with the analysis test moved in front of the review test
ClassifyContentTypeAnalysisFirst(t) ==
    IF IncludesAny(t, {"analysis", "sentiment", "key points", "summary", "findings", "insights"})
        THEN "analysis"
    ELSE IF IncludesAny(t, {"rating", "stars", "recommend", "experience", "food", "service", "quality"})
        THEN "review"
    ELSE IF IncludesAny(t, {"hello", "hi", "how are you", "chat", "conversation"})
        THEN "conversation"
    ELSE IF IncludesAny(t, {"customer", "service", "apologize", "resolve", "issue", "problem"})
        THEN "customer_service"
    ELSE "general"

ClassifyContentType(t) ==
    IF IncludesAny(t, {"rating", "stars", "recommend", "experience", "food", "service", "quality"})
        THEN "review"
    ELSE IF IncludesAny(t, {"analysis", "sentiment", "key points", "summary", "findings", "insights"})
        THEN "analysis"
    ELSE IF IncludesAny(t, {"hello", "hi", "how are you", "chat", "conversation"})
        THEN "conversation"
    ELSE IF IncludesAny(t, {"customer", "service", "apologize", "resolve", "issue", "problem"})
        THEN "customer_service"
    ELSE "general"

\* the structure analysis with the phrase too long among the negative keywords
analyzeEnhancedContentStructureLongWait(ss) ==
    LET t == ToLowerCase(Join(ss, " "))
        HasQuestionMark(x) == Includes(x, "?")
        NoQuestionMark(x) == ~Includes(x, "?")
    IN [type |-> ClassifyContentType(t),
        keyPoints |-> FilterIncluding(ss,
            {"important", "key", "main", "primary", "essential", "critical"}),
        positiveAspects |-> FilterIncluding(ss,
            {"like", "love", "good", "great", "amazing", "excellent", "outstanding", "fantastic"}),
        negativeAspects |-> FilterIncluding(ss,
            {"disappointing", "bad", "poor", "terrible", "awful", "horrible", "unacceptable", "too long"}),
        suggestions |-> FilterIncluding(ss,
            {"suggest", "recommend", "could", "should", "might", "consider"}),
        questions |-> SelectSeq(ss, HasQuestionMark),
        statements |-> SelectSeq(ss, NoQuestionMark),
        topics |-> extractTopicKeywords(t),
        totalSentences |-> Len(ss)]

\* the structure analysis with every sentence among the statements
analyzeEnhancedContentStructureAllStatements(ss) ==
    LET t == ToLowerCase(Join(ss, " "))
        HasQuestionMark(x) == Includes(x, "?")
    IN [type |-> ClassifyContentType(t),
        keyPoints |-> FilterIncluding(ss,
            {"important", "key", "main", "primary", "essential", "critical"}),
        positiveAspects |-> FilterIncluding(ss,
            {"like", "love", "good", "great", "amazing", "excellent", "outstanding", "fantastic"}),
        negativeAspects |-> FilterIncluding(ss,
            {"disappointing", "bad", "poor", "terrible", "awful", "horrible", "unacceptable"}),
        suggestions |-> FilterIncluding(ss,
            {"suggest", "recommend", "could", "should", "might", "consider"}),
        questions |-> SelectSeq(ss, HasQuestionMark),
        statements |-> ss,
        topics |-> extractTopicKeywords(t),
        totalSentences |-> Len(ss)]

analyzeEnhancedContentStructure(ss) ==
    LET t == ToLowerCase(Join(ss, " "))
        HasQuestionMark(x) == Includes(x, "?")
        NoQuestionMark(x) == ~Includes(x, "?")
    IN [type |-> ClassifyContentType(t),
        keyPoints |-> FilterIncluding(ss,
            {"important", "key", "main", "primary", "essential", "critical"}),
        positiveAspects |-> FilterIncluding(ss,
            {"like", "love", "good", "great", "amazing", "excellent", "outstanding", "fantastic"}),
        negativeAspects |-> FilterIncluding(ss,
            {"disappointing", "bad", "poor", "terrible", "awful", "horrible", "unacceptable"}),
        suggestions |-> FilterIncluding(ss,
            {"suggest", "recommend", "could", "should", "might", "consider"}),
        questions |-> SelectSeq(ss, HasQuestionMark),
        statements |-> SelectSeq(ss, NoQuestionMark),
        topics |-> extractTopicKeywords(t),
        totalSentences |-> Len(ss)]

-----------------------------------------------------------------------------
(* Response formatter: the five renderers *)

\* the closing of formatEnhancedReviewResponse
\* the review conclusion with the two count comparisons exchanged
ReviewConclusionCountsExchanged(ss, st) ==
    LET conclusion == FindIncluding(ss,
            {"recommend", "return", "worth", "overall", "conclusion", "final"})
        positiveCount == Len(st.positiveAspects)
        negativeCount == Len(st.negativeAspects)
    IN IF conclusion.found THEN "^t " \o capitalizeFirst(conclusion.value) \o "."
       ELSE IF negativeCount > positiveCount
            THEN "^t Overall, this was a positive experience that I would recommend to others."
       ELSE IF positiveCount > negativeCount
            THEN "^t While there were some issues, there's potential for improvement with the right changes."
       ELSE "^t This was a mixed experience with both positive and negative aspects to consider."

ReviewConclusion(ss, st) ==
    LET conclusion == FindIncluding(ss,
            {"recommend", "return", "worth", "overall", "conclusion", "final"})
        positiveCount == Len(st.positiveAspects)
        negativeCount == Len(st.negativeAspects)
    IN IF conclusion.found THEN "^t " \o capitalizeFirst(conclusion.value) \o "."
       ELSE IF positiveCount > negativeCount
            THEN "^t Overall, this was a positive experience that I would recommend to others."
       ELSE IF negativeCount > positiveCount
            THEN "^t While there were some issues, there's potential for improvement with the right changes."
       ELSE "^t This was a mixed experience with both positive and negative aspects to consider."

\* the review renderer with the recommendations ahead of the value section
formatEnhancedReviewResponseHintsEarly(ss, st) ==
    LET opening == FindIncluding(ss,
            {"experience", "visit", "tried", "went", "recently", "last"})
        highlights == FilterIncluding(ss,
            {"highlight", "memorable", "standout", "impressive", "notable"})
        experienceDetails == FilterIncluding(ss,
            {"atmosphere", "ambiance", "environment", "setting", "vibe", "feel"})
        valueAspects == FilterIncluding(ss,
            {"price", "cost", "value", "worth", "expensive", "affordable"})
    IN Trim(
          (IF opening.found THEN "^a " \o capitalizeFirst(opening.value) \o ".\n\n" ELSE "")
       \o (IF Len(st.positiveAspects) > 0
           THEN "+ What I Really Enjoyed:\n" \o BulletLines(st.positiveAspects, 4, "   @ ") \o "\n"
           ELSE "")
       \o (IF Len(st.negativeAspects) > 0
           THEN "^w Areas for Improvement:\n" \o BulletLines(st.negativeAspects, 3, "   @ ") \o "\n"
           ELSE "")
       \o (IF Len(highlights) > 0
           THEN "^s Memorable Highlights:\n" \o NumberedLines(highlights, 3) \o "\n"
           ELSE "")
       \o (IF Len(experienceDetails) > 0
           THEN "^h Atmosphere & Environment:\n" \o BulletLines(experienceDetails, 2, "   ") \o "\n"
           ELSE "")
       \o (IF Len(st.suggestions) > 0
           THEN "^i Recommendations:\n" \o BulletLines(st.suggestions, 3, "   @ ") \o "\n"
           ELSE "")
       \o (IF Len(valueAspects) > 0
           THEN "^v Value & Pricing:\n" \o BulletLines(valueAspects, 2, "   ") \o "\n"
           ELSE "")
       \o ReviewConclusion(ss, st))

formatEnhancedReviewResponse(ss, st) ==
    LET opening == FindIncluding(ss,
            {"experience", "visit", "tried", "went", "recently", "last"})
        highlights == FilterIncluding(ss,
            {"highlight", "memorable", "standout", "impressive", "notable"})
        experienceDetails == FilterIncluding(ss,
            {"atmosphere", "ambiance", "environment", "setting", "vibe", "feel"})
        valueAspects == FilterIncluding(ss,
            {"price", "cost", "value", "worth", "expensive", "affordable"})
    IN Trim(
          (IF opening.found THEN "^a " \o capitalizeFirst(opening.value) \o ".\n\n" ELSE "")
       \o (IF Len(st.positiveAspects) > 0
           THEN "+ What I Really Enjoyed:\n" \o BulletLines(st.positiveAspects, 4, "   @ ") \o "\n"
           ELSE "")
       \o (IF Len(st.negativeAspects) > 0
           THEN "^w Areas for Improvement:\n" \o BulletLines(st.negativeAspects, 3, "   @ ") \o "\n"
           ELSE "")
       \o (IF Len(highlights) > 0
           THEN "^s Memorable Highlights:\n" \o NumberedLines(highlights, 3) \o "\n"
           ELSE "")
       \o (IF Len(experienceDetails) > 0
           THEN "^h Atmosphere & Environment:\n" \o BulletLines(experienceDetails, 2, "   ") \o "\n"
           ELSE "")
       \o (IF Len(valueAspects) > 0
           THEN "^v Value & Pricing:\n" \o BulletLines(valueAspects, 2, "   ") \o "\n"
           ELSE "")
       \o (IF Len(st.suggestions) > 0
           THEN "^i Recommendations:\n" \o BulletLines(st.suggestions, 3, "   @ ") \o "\n"
           ELSE "")
       \o ReviewConclusion(ss, st))

\* the topic-specific insights section of formatEnhancedAnalysisResponse
AnalysisTopicSection(ss, st) ==
    IF Len(st.topics) > 0
    THEN "^c " \o capitalizeFirst(st.topics[1]) \o "-Specific Insights:\n"
            \o NumberedLines(FilterIncluding(ss, {st.topics[i] : i \in 1..Len(st.topics)}), 3)
            \o "\n"
    ELSE ""

formatEnhancedAnalysisResponse(ss, st) ==
    LET summary == FindIncluding(ss, {"overall", "summary", "in conclusion", "main takeaway"})
        findings == FilterIncluding(ss,
            {"found", "discovered", "identified", "detected", "observed", "noticed"})
        sentimentSentences == FilterIncluding(ss,
            {"positive", "negative", "neutral", "sentiment", "emotion", "tone"})
        actionItems == FilterIncluding(ss,
            {"action", "next", "step", "plan", "implement", "improve"})
        impactSentences == FilterIncluding(ss,
            {"impact", "effect", "result", "outcome", "consequence"})
    IN Trim(
          (IF summary.found
           THEN "^x Executive Summary:\n" \o capitalizeFirst(summary.value) \o ".\n\n" ELSE "")
       \o (IF Len(findings) > 0
           THEN "^f Detailed Findings:\n" \o NumberedLines(findings, 5) \o "\n" ELSE "")
       \o (IF Len(sentimentSentences) > 0
           THEN "^j Sentiment Analysis:\n" \o BulletLines(sentimentSentences, 3, "   @ ") \o "\n"
           ELSE "")
       \o AnalysisTopicSection(ss, st)
       \o (IF Len(st.suggestions) > 0
           THEN "^i Strategic Recommendations:\n" \o BulletLines(st.suggestions, 4, "   @ ") \o "\n"
           ELSE "")
       \o (IF Len(actionItems) > 0
           THEN "^r Action Items & Next Steps:\n" \o NumberedLines(actionItems, 4) \o "\n" ELSE "")
       \o (IF Len(impactSentences) > 0
           THEN "^g Impact Assessment:\n" \o BulletLines(impactSentences, 2, "   @ ") ELSE ""))

analyzeConversationContext(ss) ==
    LET t == ToLowerCase(Join(ss, " "))
    IN [hasGreeting |-> IncludesAny(t, {"hello", "hi", "hey", "thanks"}),
        hasQuestion |-> Includes(t, "?"),
        hasPersonalInsights |-> IncludesAny(t, {"think", "believe", "feel"}),
        isCasual |-> IncludesAny(t, {"cool", "awesome", "great"}),
        isThoughtful |-> IncludesAny(t, {"interesting", "fascinating", "consider"})]

structureMainResponse(ss, context) ==
    LET openingSentences == Slice(ss, 0, 2)
        mainContent == Slice(ss, 2, 5)
        closingSentences == Slice(ss, 5, 7)
        Capitalized(xs) == [i \in 1..Len(xs) |-> capitalizeFirst(xs[i])]
    IN    (IF Len(openingSentences) > 0
           THEN Join(Capitalized(openingSentences), " ") \o "\n\n" ELSE "")
       \o (IF Len(mainContent) > 0
           THEN (IF context.hasQuestion THEN "^q Here's what I think:\n"
                 ELSE IF context.isCasual THEN "^j "
                 ELSE "^p ")
                \o ConcatAll([i \in 1..Len(mainContent) |-> capitalizeFirst(mainContent[i]) \o " "])
                \o "\n\n"
           ELSE "")
       \o (IF Len(closingSentences) > 0
           THEN Join(Capitalized(closingSentences), " ") ELSE "")

\* the conversational closing with the casual test ahead of the question test
generateConversationalClosingCasualFirst(context, ss) ==
    LET existingFollowUp == FindIncluding(ss,
            {"what about you", "how about", "what do you think", "any thoughts",
             "your experience", "your opinion"})
    IN IF existingFollowUp.found THEN "^b " \o capitalizeFirst(existingFollowUp.value)
       ELSE IF context.isCasual
            THEN "^b How about you? What's your take on this?"
       ELSE IF context.hasQuestion
            THEN "^b What are your thoughts on this? I'd love to hear your perspective!"
       ELSE IF context.isThoughtful
            THEN "^b What do you think about this? I'm curious about your viewpoint."
       ELSE "^b What are your thoughts? I'd love to continue this conversation!"

\* the conversational closing without its synthesized follow-ups
generateConversationalClosingReuseOnly(context, ss) ==
    LET existingFollowUp == FindIncluding(ss,
            {"what about you", "how about", "what do you think", "any thoughts",
             "your experience", "your opinion"})
    IN IF existingFollowUp.found THEN "^b " \o capitalizeFirst(existingFollowUp.value)
       ELSE ""

generateConversationalClosing(context, ss) ==
    LET existingFollowUp == FindIncluding(ss,
            {"what about you", "how about", "what do you think", "any thoughts",
             "your experience", "your opinion"})
    IN IF existingFollowUp.found THEN "^b " \o capitalizeFirst(existingFollowUp.value)
       ELSE IF context.hasQuestion
            THEN "^b What are your thoughts on this? I'd love to hear your perspective!"
       ELSE IF context.isCasual
            THEN "^b How about you? What's your take on this?"
       ELSE IF context.isThoughtful
            THEN "^b What do you think about this? I'm curious about your viewpoint."
       ELSE "^b What are your thoughts? I'd love to continue this conversation!"

formatEnhancedConversationResponse(ss, st) ==
    LET context == analyzeConversationContext(ss)
        greeting == FindIncluding(ss,
            {"hello", "hi", "hey", "thanks", "thank you", "appreciate"})
        LongEnough(x) == Len(x) > 10
        mainResponse == SelectSeq(ss, LongEnough)
        insights == FilterIncluding(ss,
            {"think", "believe", "feel", "experience", "opinion", "view"})
    IN Trim(
          (IF context.hasGreeting
           THEN (IF greeting.found THEN capitalizeFirst(greeting.value) ELSE greeting.value)
                \o ".\n\n"
           ELSE "")
       \o (IF Len(mainResponse) > 0
           THEN structureMainResponse(mainResponse, context) \o "\n\n" ELSE "")
       \o (IF context.hasPersonalInsights /\ Len(insights) > 0
           THEN "^p My Perspective:\n" \o BulletLines(insights, 2, "   ") \o "\n" ELSE "")
       \o generateConversationalClosing(context, ss))

formatEnhancedCustomerServiceResponse(ss, st) ==
    LET acknowledgment == FindIncluding(ss,
            {"understand", "apologize", "sorry", "concern", "issue", "problem"})
        problemAnalysis == FilterIncluding(ss,
            {"situation", "circumstance", "experience", "issue", "problem", "concern"})
        solutions == FilterIncluding(ss,
            {"solution", "resolve", "fix", "address", "correct", "improve"})
        improvements == FilterIncluding(ss,
            {"improve", "enhance", "better", "upgrade", "develop", "advance"})
        compensation == FilterIncluding(ss,
            {"compensate", "refund", "discount", "credit", "offer", "gesture"})
        followUp == FindIncluding(ss,
            {"contact", "reach", "follow up", "get in touch", "available"})
    IN Trim(
          (IF acknowledgment.found
           THEN "^k " \o capitalizeFirst(acknowledgment.value) \o ".\n\n" ELSE "")
       \o (IF Len(problemAnalysis) > 0
           THEN "^c Understanding Your Situation:\n" \o BulletLines(problemAnalysis, 3, "   @ ") \o "\n"
           ELSE "")
       \o (IF Len(solutions) > 0
           THEN "^z Immediate Solutions:\n" \o NumberedLines(solutions, 4) \o "\n" ELSE "")
       \o (IF Len(improvements) > 0
           THEN "^r Long-term Improvements:\n" \o BulletLines(improvements, 3, "   @ ") \o "\n"
           ELSE "")
       \o (IF Len(compensation) > 0
           THEN "^y Goodwill Gestures:\n" \o BulletLines(compensation, 2, "   @ ") \o "\n"
           ELSE "")
       \o (IF followUp.found THEN "^d " \o capitalizeFirst(followUp.value)
           ELSE "^d Please don't hesitate to reach out if you need any further assistance."))

formatEnhancedGeneralResponse(ss, st) ==
    LET explanations == Slice(ss, 1, 6)
        insights == FilterIncluding(ss,
            {"important", "key", "essential", "critical", "significant", "notable"})
        applications == FilterIncluding(ss,
            {"example", "instance", "case", "scenario", "situation", "application"})
        conclusion == FindIncluding(ss,
            {"therefore", "thus", "in summary", "overall", "conclusion", "final"})
    IN Trim(
          (IF Len(ss) > 0 /\ ss[1] # ""
           THEN "^n Main Point:\n" \o capitalizeFirst(ss[1]) \o ".\n\n" ELSE "")
       \o (IF Len(explanations) > 0
           THEN "^c Detailed Explanation:\n" \o NumberedLines(explanations, 5) \o "\n" ELSE "")
       \o (IF Len(insights) > 0
           THEN "^i Key Insights:\n" \o BulletLines(insights, 3, "   @ ") \o "\n" ELSE "")
       \o (IF Len(applications) > 0
           THEN "^f Practical Examples:\n" \o NumberedLines(applications, 2) \o "\n" ELSE "")
       \o (IF conclusion.found THEN "^t " \o capitalizeFirst(conclusion.value)
           ELSE "^t In summary, this topic encompasses multiple important aspects that deserve careful consideration and thoughtful discussion."))

\* the dispatch at the end of formatForEnhancedDepthAndRelevance
RenderByType(ss, st) ==
    IF st.type = "review" THEN formatEnhancedReviewResponse(ss, st)
    ELSE IF st.type = "analysis" THEN formatEnhancedAnalysisResponse(ss, st)
    ELSE IF st.type = "conversation" THEN formatEnhancedConversationResponse(ss, st)
    ELSE IF st.type = "customer_service" THEN formatEnhancedCustomerServiceResponse(ss, st)
    ELSE formatEnhancedGeneralResponse(ss, st)

\* formatForEnhancedDepthAndRelevance(text) for a string argument
formatForEnhancedDepthAndRelevance(t) ==
    IF t = "" THEN t
    ELSE LET ss == SplitSentences(t)
         IN RenderByType(ss, analyzeEnhancedContentStructure(ss))

-----------------------------------------------------------------------------
(* responseFormatter.js: cleanAIResponse *)

Occurrences(s, k) == {i \in 1..(Len(s) - Len(k) + 1) : SubSeq(s, i, i + Len(k) - 1) = k}

Digits == {"0", "1", "2", "3", "4", "5", "6", "7", "8", "9"}

\* replace(/d(.*?)d/g, '$1') for a delimiter d; with acrossLines the body is
\* [\s\S]*? and without keep the replacement is ''; "~" stands for the backtick,
\* which a string of this language cannot hold
RECURSIVE ReplaceDelimited(_, _, _, _)
ReplaceDelimited(s, d, acrossLines, keep) ==
    LET n == Len(s)
        m == Len(d)
        marks == Occurrences(s, d)
        breaks == IF acrossLines THEN {}
                  ELSE {i \in 1..n : CharAt(s, i) \in LineTerminators}
        closes(i) == {j \in marks : j >= i + m /\ \A b \in breaks : ~(i + m <= b /\ b < j)}
        opens == {i \in marks : closes(i) # {}}
    IN IF opens = {} THEN s
       ELSE LET i == CHOOSE x \in opens : \A y \in opens : x <= y
                j == CHOOSE x \in closes(i) : \A y \in closes(i) : x <= y
            IN SubSeq(s, 1, i - 1)
               \o (IF keep THEN SubSeq(s, i + m, j - 1) ELSE "")
               \o ReplaceDelimited(SubSeq(s, j + m, n), d, acrossLines, keep)

\* replace(/\n{3,}/g, '\n\n')
CollapseNewlines(s) ==
    ConcatAll([i \in 1..Len(s) |->
        IF i >= 3 /\ SubSeq(s, i - 2, i) = "\n\n\n" THEN "" ELSE CharAt(s, i)])

AIPrefixes ==
    <<"Here's", "Here is", "I'll", "I will", "Let me", "Based on", "According to",
      "As an AI", "As a customer service representative", "As a helpful assistant">>

\* replace(/^(Here's|...|As a helpful assistant)[,\s]*/gi, '')
StripPrefix(s) ==
    LET hits == {k \in 1..Len(AIPrefixes) :
                    /\ Len(AIPrefixes[k]) <= Len(s)
                    /\ ToLowerCase(SubSeq(s, 1, Len(AIPrefixes[k]))) = ToLowerCase(AIPrefixes[k])}
    IN IF hits = {} THEN s
       ELSE LET k == CHOOSE x \in hits : \A y \in hits : x <= y
            IN SubSeq(s, FirstNotIn(s, Len(AIPrefixes[k]) + 1, WhiteSpace \cup {","}), Len(s))

AISuffixes ==
    <<"I hope this helps", "Let me know if you need anything else", "Feel free to ask",
      "Is there anything else I can help you with">>

\* replace(/(I hope this helps|...|Is there anything else I can help you with)[.!]*$/gi, '')
StripSuffix(s) ==
    LET last == LastNotIn(s, {".", "!"})
        hits == {k \in 1..Len(AISuffixes) :
                    /\ Len(AISuffixes[k]) <= last
                    /\ ToLowerCase(SubSeq(s, last - Len(AISuffixes[k]) + 1, last))
                          = ToLowerCase(AISuffixes[k])}
    IN IF hits = {} THEN s
       ELSE LET k == CHOOSE x \in hits : \A y \in hits : Len(AISuffixes[x]) >= Len(AISuffixes[y])
            IN SubSeq(s, 1, last - Len(AISuffixes[k]))

\* replace(/[c]{2,}/g, 'c')
CollapseRuns(s, c) ==
    ConcatAll([i \in 1..Len(s) |->
        IF i >= 2 /\ CharAt(s, i) = c /\ CharAt(s, i - 1) = c THEN "" ELSE CharAt(s, i)])

\* replace(/([^\s])\1{2,}/g, '$1')
CollapseRepeats(s) ==
    ConcatAll([i \in 1..Len(s) |->
        IF /\ i >= 2
           /\ CharAt(s, i) \notin WhiteSpace
           /\ CharAt(s, i - 1) = CharAt(s, i)
           /\ \/ i >= 3 /\ CharAt(s, i - 2) = CharAt(s, i)
              \/ i < Len(s) /\ CharAt(s, i + 1) = CharAt(s, i)
        THEN "" ELSE CharAt(s, i)])

\* replace(/\s{2,}/g, ' ')
CollapseSpaces(s) ==
    ConcatAll([i \in 1..Len(s) |->
        IF CharAt(s, i) \notin WhiteSpace THEN CharAt(s, i)
        ELSE IF i >= 2 /\ CharAt(s, i - 1) \in WhiteSpace THEN ""
        ELSE IF i < Len(s) /\ CharAt(s, i + 1) \in WhiteSpace THEN " "
        ELSE CharAt(s, i)])

\* replace(/^["']|["']$/g, '')
StripQuotes(s) ==
    LET quotes == {"\"", "'"}
        from == IF Len(s) >= 1 /\ CharAt(s, 1) \in quotes THEN 2 ELSE 1
        to == IF Len(s) >= 2 /\ CharAt(s, Len(s)) \in quotes THEN Len(s) - 1 ELSE Len(s)
    IN SubSeq(s, from, to)

\* the index of the last character of a list marker starting at q, 0 if none:
\* [-*@] for a bullet, \d+[.)] for a number
MarkerEnd(s, q, numbered) ==
    IF ~numbered THEN (IF CharAt(s, q) \in {"-", "*", "@"} THEN q ELSE 0)
    ELSE IF CharAt(s, q) \notin Digits THEN 0
    ELSE LET d == FirstNotIn(s, q, Digits)
         IN IF d <= Len(s) /\ CharAt(s, d) \in {".", ")"} THEN d ELSE 0

\* replace(/^[\s]*[-*@]\s*/gm, '') and replace(/^[\s]*\d+[.)]\s*/gm, ''),
\* scanning s from index from
RECURSIVE StripLineMarkers(_, _, _)
StripLineMarkers(s, from, numbered) ==
    LET n == Len(s)
        starts == {p \in from..n : p = 1 \/ CharAt(s, p - 1) \in LineTerminators}
        endOf(p) == LET q == FirstNotIn(s, p, WhiteSpace)
                    IN IF q > n THEN 0 ELSE MarkerEnd(s, q, numbered)
        matches == {p \in starts : endOf(p) # 0}
    IN IF matches = {} THEN SubSeq(s, from, n)
       ELSE LET p == CHOOSE x \in matches : \A y \in matches : x <= y
            IN SubSeq(s, from, p - 1)
               \o StripLineMarkers(s, FirstNotIn(s, endOf(p) + 1, WhiteSpace), numbered)

\* replace(/^[A-Z][A-Z\s]+:$/gm, ''), scanning s from index from
RECURSIVE StripHeaders(_, _)
StripHeaders(s, from) ==
    LET n == Len(s)
        starts == {p \in from..n :
                     /\ p = 1 \/ CharAt(s, p - 1) \in LineTerminators
                     /\ CharAt(s, p) \in UpperCaseSet}
        colonOf(p) == FirstNotIn(s, p + 1, UpperCaseSet \cup WhiteSpace)
        matches == {p \in starts :
                      /\ colonOf(p) >= p + 2
                      /\ colonOf(p) <= n
                      /\ CharAt(s, colonOf(p)) = ":"
                      /\ colonOf(p) = n \/ CharAt(s, colonOf(p) + 1) \in LineTerminators}
    IN IF matches = {} THEN SubSeq(s, from, n)
       ELSE LET p == CHOOSE x \in matches : \A y \in matches : x <= y
            IN SubSeq(s, from, p - 1) \o StripHeaders(s, colonOf(p) + 1)

\* replace(/^\s*\n/, '')
StripLeadingBlank(s) ==
    LET w == FirstNotIn(s, 1, WhiteSpace) - 1
        k == LastNotIn(SubSeq(s, 1, w), WhiteSpace \ {"\n"})
        nl == IF k >= 1 /\ CharAt(s, k) = "\n" THEN k ELSE 0
    IN IF nl = 0 THEN s ELSE SubSeq(s, nl + 1, Len(s))

\* replace(/\n\s*$/, '')
StripTrailingBlank(s) ==
    LET last == LastNotIn(s, WhiteSpace)
        nl == FirstNotIn(s, last + 1, WhiteSpace \ {"\n"})
    IN IF nl > Len(s) THEN s ELSE SubSeq(s, 1, nl - 1)

\* the chain of replacements of cleanAIResponse, in its order
CleanPasses(response) ==
    LET c1 == ReplaceDelimited(response, "~~~", TRUE, FALSE)
        c2 == ReplaceDelimited(c1, "**", FALSE, TRUE)
        c3 == ReplaceDelimited(c2, "*", FALSE, TRUE)
        c4 == ReplaceDelimited(c3, "~", FALSE, TRUE)
        c5 == Trim(CollapseNewlines(c4))
        c6 == StripSuffix(StripPrefix(c5))
        c7 == CollapseRuns(CollapseRuns(CollapseRuns(c6, "!"), "?"), ".")
        c8 == StripQuotes(CollapseSpaces(CollapseRepeats(c7)))
        c9 == StripLineMarkers(StripLineMarkers(c8, 1, FALSE), 1, TRUE)
        c10 == StripHeaders(c9, 1)
    IN StripTrailingBlank(StripLeadingBlank(c10))

cleanAIResponse(response) ==
    IF response = "" THEN response
    ELSE formatForEnhancedDepthAndRelevance(CleanPasses(response))

-----------------------------------------------------------------------------
(* The formatter applied to texts made of whole sentences *)

MaxSentences == 3

\* the sentences the inputs are made of, in the order they are used
Corpus ==
    <<"hello there", "great food", "lovely staff", "good but bad", "bad service",
      "my analysis", "the meal", "i recommend it", "an issue", "contact us",
      "how about you", "overall ok">>

\* the elements of items at the positions in picks, in the order of items
Pick(items, picks) ==
    [k \in 1..Cardinality(picks) |->
        items[CHOOSE i \in picks : Cardinality({j \in picks : j <= i}) = k]]

SentenceLists ==
    {Pick(Corpus, picks) : picks \in {q \in SUBSET (1..Len(Corpus)) :
                                Cardinality(q) >= 1 /\ Cardinality(q) <= MaxSentences}}

\* n sentences that each match every list section of one renderer
CapSentences(base, n) == [i \in 1..n |-> base \o CharAt("abcdefghij", i)]

CapBases ==
    {"good bad notable vibe price could food ",
     "found sentiment hotel could plan impact ",
     "issue fix better refund ",
     "key case ",
     "hello we think "}

CapSentenceLists ==
    {CapSentences(base, n) : base \in CapBases, n \in 1..6}
        \cup {CapSentences("good bad notable vibe price could food ", 10),
              CapSentences("we went good bad notable vibe price could food ", 2)}

FormatInputs == {Join(ss, ". ") \o "." : ss \in SentenceLists \cup CapSentenceLists}

SelectorIdle ==
    /\ models = ConstructorModels
    /\ responsePatterns = ConstructorPatterns
    /\ proc = [p \in Procs |-> IdleProc]
    /\ calls = 0

InitFormat ==
    /\ LlamaIdle
    /\ text \in FormatInputs
    /\ sentences = <<>>
    /\ structure = [type |-> "none"]
    /\ out = ""
    /\ applied = 0
    /\ SelectorIdle
    /\ AnalyzerIdle
    /\ DetectorIdle

\* one call of formatForEnhancedDepthAndRelevance(text); sentences and
\* structure keep the values of its locals
Format ==
    /\ applied = 0
    /\ sentences' = SplitSentences(text)
    /\ structure' = analyzeEnhancedContentStructure(SplitSentences(text))
    /\ out' = formatForEnhancedDepthAndRelevance(text)
    /\ applied' = 1
    /\ UNCHANGED <<text, selectorVars, detectorVars, analyzerVars, llamaVars>>

NextFormat == Format

SpecFormat == InitFormat /\ [][NextFormat]_vars

\* the text after the last line break of s
LastLine(s) ==
    LET breaks == {i \in 1..Len(s) : CharAt(s, i) = "\n"}
    IN IF breaks = {} THEN s
       ELSE SubSeq(s, (CHOOSE i \in breaks : \A j \in breaks : j <= i) + 1, Len(s))

EndsWith(s, k) == Len(s) >= Len(k) /\ SubSeq(s, Len(s) - Len(k) + 1, Len(s)) = k

\* C5: for every non-empty sentence list, whatever type the classifier
\* assigns, the renderer chosen by the dispatch returns a non-empty string.
C5_OutputNonEmpty ==
    (applied = 1 /\ Len(sentences) > 0) => Len(out) > 0

\* C6: no renderer emits an empty heading: a heading line (a line ending in
\* a colon) is always followed by an item line.
C6_NoEmptyHeading ==
    applied = 1 => (~Includes(out, ":\n\n") /\ ~EndsWith(out, ":"))

C5_Witness ==
    applied = 1 /\ Len(sentences) > 0 /\ structure.type = "analysis" /\ out = ""

C6_Witness ==
    applied = 1 /\ structure.type = "analysis" /\ EndsWith(out, "Insights:")

C8_ReviewFallbackByCounts ==
    (/\ applied = 1
     /\ structure.type = "review"
     /\ ~FindIncluding(sentences,
            {"recommend", "return", "worth", "overall", "conclusion", "final"}).found)
    => LET positiveCount == Len(structure.positiveAspects)
           negativeCount == Len(structure.negativeAspects)
       IN LastLine(out) =
            (IF positiveCount > negativeCount
                THEN "^t Overall, this was a positive experience that I would recommend to others."
             ELSE IF negativeCount > positiveCount
                THEN "^t While there were some issues, there's potential for improvement with the right changes."
             ELSE "^t This was a mixed experience with both positive and negative aspects to consider.")

C8_Witness ==
    /\ applied = 1
    /\ structure.type = "review"
    /\ ~FindIncluding(sentences,
            {"recommend", "return", "worth", "overall", "conclusion", "final"}).found
    /\ Len(structure.positiveAspects) = 3
    /\ Len(structure.negativeAspects) = 1
    /\ LastLine(out) = "^t Overall, this was a positive experience that I would recommend to others."

\* C9: the classifier assigns the first type, in the order review, analysis,
\* conversation, customer_service, whose keywords occur in the lowercased
\* joined text, and general when none occurs.
C9_ClassifierFirstMatch ==
    applied = 1 =>
        LET t == ToLowerCase(Join(sentences, " "))
            isReview == IncludesAny(t, {"rating", "stars", "recommend", "experience",
                                        "food", "service", "quality"})
            isAnalysis == IncludesAny(t, {"analysis", "sentiment", "key points", "summary",
                                          "findings", "insights"})
            isConversation == IncludesAny(t, {"hello", "hi", "how are you", "chat",
                                              "conversation"})
            isCustomerService == IncludesAny(t, {"customer", "service", "apologize",
                                                 "resolve", "issue", "problem"})
        IN structure.type =
              (IF isReview THEN "review"
               ELSE IF isAnalysis THEN "analysis"
               ELSE IF isConversation THEN "conversation"
               ELSE IF isCustomerService THEN "customer_service"
               ELSE "general")

C9_Witness ==
    /\ applied = 1
    /\ Includes(ToLowerCase(Join(sentences, " ")), "food")
    /\ Includes(ToLowerCase(Join(sentences, " ")), "analysis")
    /\ structure.type = "review"

-----------------------------------------------------------------------------
(* The selector's analysis of one input *)

MaxParts == 2

\* the words the selector inputs are made of, in the order they are used
DetectParts ==
    <<"hello", "analyze", "visit", "problem", "explain",
      "food", "hotel", "buy", "support", "app",
      "why?", "help", "feedback", "complain", "suggest",
      "bad", "great", "now">>

DetectInputs ==
    {Join(Pick(DetectParts, picks), " ") :
        picks \in {q \in SUBSET (1..Len(DetectParts)) :
                    Cardinality(q) >= 1 /\ Cardinality(q) <= MaxParts}}

\* the long input alone and after each word: high complexity and urgency
LongDetectInputs == {LongInput} \cup {DetectParts[i] \o " " \o LongInput : i \in 1..Len(DetectParts)}

InitDetect ==
    /\ LlamaIdle
    /\ input \in DetectInputs \cup LongDetectInputs
    /\ analysis = NoAnalysis
    /\ selection = NoSelection
    /\ SelectorIdle
    /\ AnalyzerIdle
    /\ FormatterIdle

\* one call of analyzeInputAndSelectModel(input) on the service
Analyze ==
    /\ analysis = NoAnalysis
    /\ LET r == analyzeInputAndSelectModel(models, responsePatterns, input)
       IN /\ analysis' = r.result.analysis
          /\ selection' = Resolve(r.result, r.responsePatterns)
          /\ models' = r.models
          /\ responsePatterns' = r.responsePatterns
    /\ UNCHANGED <<input, proc, calls, formatterVars, analyzerVars, llamaVars>>

NextDetect == Analyze

SpecDetect == InitDetect /\ [][NextDetect]_vars

\* the label of the first entry of table with a keyword occurring in t
FirstLabel(t, table, default) ==
    LET hits == {i \in 1..Len(table) : IncludesAny(t, table[i][2])}
    IN IF hits = {} THEN default
       ELSE table[CHOOSE i \in hits : \A j \in hits : i <= j][1]

\* C10: each of the three detectors returns the first label, in its listed
\* order, with a keyword occurring in the lowercased input, and general when
\* no keyword occurs.
C10_DetectorsFirstMatch ==
    analysis # NoAnalysis =>
        LET t == ToLowerCase(input)
        IN /\ analysis.contentType = FirstLabel(t,
                <<<<"conversation", {"hello", "hi", "how are you"}>>,
                  <<"analysis", {"analyze", "analysis", "sentiment"}>>,
                  <<"review", {"review", "experience", "visit"}>>,
                  <<"customer_service", {"problem", "issue", "complaint"}>>,
                  <<"inquiry", {"question", "help", "explain"}>>>>, "general")
           /\ analysis.domain = FirstLabel(t,
                <<<<"restaurant", {"restaurant", "food", "dining"}>>,
                  <<"hospitality", {"hotel", "accommodation", "stay"}>>,
                  <<"retail", {"product", "purchase", "buy"}>>,
                  <<"service", {"service", "support", "help"}>>,
                  <<"technology", {"technology", "app", "software"}>>>>, "general")
           /\ analysis.userIntent = FirstLabel(t,
                <<<<"question", {"?"}>>,
                  <<"support", {"help", "support"}>>,
                  <<"feedback", {"review", "feedback"}>>,
                  <<"complaint", {"complain", "issue"}>>,
                  <<"recommendation", {"suggest", "recommend"}>>>>, "general")

C10_Witness ==
    /\ analysis # NoAnalysis
    /\ Includes(input, "buy")
    /\ Includes(input, "support")
    /\ analysis.contentType = "general"
    /\ analysis.domain = "retail"
    /\ analysis.userIntent = "support"

-----------------------------------------------------------------------------
(* cleanAIResponse applied to a raw response, and again to its own result *)

MaxApplications == 2

CleanPrefixes == {"", "Here's ", "- ", "**Note** "}
CleanBodies == {"abc", "great food", "hello there", "my analysis", "an issue", "overall ok"}
CleanSuffixes == {"", "!!", ". I hope this helps.", "\n\n\nthe end"}

\* a raw completion of four sentences
RawReview ==
    "I visited this restaurant last week. The food was amazing and the staff was great. "
        \o "However, the wait was too long. I would recommend trying the pasta."

\* a raw completion of four sentences, two of them questions
RawConversation ==
    "Hello there, how is it going? The app is really cool! "
        \o "Where are you headed today?? Tell me more about it."

CleanInputs ==
    {a \o b \o c : a \in CleanPrefixes, b \in CleanBodies, c \in CleanSuffixes}
        \cup {RawReview, RawConversation}

InitClean ==
    /\ LlamaIdle
    /\ text \in CleanInputs
    /\ sentences = <<>>
    /\ structure = [type |-> "none"]
    /\ out = ""
    /\ applied = 0
    /\ SelectorIdle
    /\ AnalyzerIdle
    /\ DetectorIdle

\* one call of cleanAIResponse: the first on the raw response, each later one
\* on the string the call before it returned; text keeps the argument
Clean ==
    /\ applied < MaxApplications
    /\ LET response == IF applied = 0 THEN text ELSE out
           cleaned == CleanPasses(response)
       IN /\ text' = response
          /\ out' = cleanAIResponse(response)
          /\ sentences' = SplitSentences(cleaned)
          /\ structure' = analyzeEnhancedContentStructure(SplitSentences(cleaned))
    /\ applied' = applied + 1
    /\ UNCHANGED <<selectorVars, detectorVars, analyzerVars, llamaVars>>

NextClean == Clean

SpecClean == InitClean /\ [][NextClean]_vars

\* C4: cleaning is idempotent: cleaning the result of a cleaning returns it
\* unchanged.
C4_CleanIdempotent ==
    applied >= 2 => out = text

C4_Witness ==
    /\ applied = 2
    /\ text = "^n Main Point:\nAbc.\n\n^t In summary, this topic encompasses multiple important aspects that deserve careful consideration and thoughtful discussion."
    /\ out # text

-----------------------------------------------------------------------------
(* The selector's detector and the formatter's classifier on the same text *)

PinnedInput == "Hi there, how's it going? I wanted to get your analysis on this."

CompareInputs == {PinnedInput} \cup DetectInputs

InitCompare ==
    /\ LlamaIdle
    /\ input \in CompareInputs
    /\ analysis = NoAnalysis
    /\ selection = NoSelection
    /\ text = input
    /\ sentences = <<>>
    /\ structure = [type |-> "none"]
    /\ out = ""
    /\ applied = 0
    /\ SelectorIdle
    /\ AnalyzerIdle

NextCompare == Analyze \/ Format

SpecCompare == InitCompare /\ [][NextCompare]_vars

\* C11: on the same text the selector's detector (conversation before
\* analysis before review) and the formatter's classifier (review before
\* analysis before conversation) each follow their own order: the pinned
\* input is tagged conversation by the detector and analysis by the
\* classifier, and a text with both a greeting and a food word is tagged
\* conversation by the detector and review by the classifier.
C11_ClassifiersDiverge ==
    (analysis # NoAnalysis /\ applied = 1) =>
        /\ input = PinnedInput =>
              (analysis.contentType = "conversation" /\ structure.type = "analysis")
        /\ (Includes(ToLowerCase(input), "hello") /\ Includes(ToLowerCase(input), "food")) =>
              (analysis.contentType = "conversation" /\ structure.type = "review")

C11_Witness ==
    /\ input = PinnedInput
    /\ text = PinnedInput
    /\ applied = 1
    /\ analysis.contentType = "conversation"
    /\ structure.type = "analysis"

\* C12: model selection is total and first-match: the empathy config
\* (claude) for customer_service content or complaint intent, otherwise the
\* reasoning config (gpt4) for analysis content or high complexity, otherwise
\* the creative config (gemini) for review content or general domain,
\* otherwise the conversational config (llama); the result is always one of
\* the four registry entries.
C12_SelectionFirstMatch ==
    analysis # NoAnalysis =>
        /\ selection.selectedModel \in ModelKeys
        /\ selection.selectedModel =
              (IF analysis.contentType = "customer_service" \/ analysis.userIntent = "complaint"
                    THEN "claude"
               ELSE IF analysis.contentType = "analysis" \/ analysis.complexity = "high"
                    THEN "gpt4"
               ELSE IF analysis.contentType = "review" \/ analysis.domain = "general"
                    THEN "gemini"
               ELSE "llama")
        /\ LET strengths == models[selection.selectedModel].strengths
               has(x) == \E i \in 1..Len(strengths) : strengths[i] = x
           IN CASE selection.selectedModel = "claude" -> has("empathy")
                [] selection.selectedModel = "gpt4" -> has("reasoning")
                [] selection.selectedModel = "gemini" -> has("creative")
                [] OTHER -> has("conversation")

\* an analysis matching the second and the third rule, decided by the second
C12_Witness ==
    /\ analysis # NoAnalysis
    /\ analysis.contentType = "analysis"
    /\ analysis.domain = "general"
    /\ analysis.userIntent # "complaint"
    /\ selection.selectedModel = "gpt4"

\* C13: the strategy an invocation computes is the chosen config's
\* temperature and maxTokens with exactly these adjustments: temperature is
\* min(config + 0.2, 1.0) and the tag urgent_response is present iff urgency
\* is high; the tag empathetic_tone is present and 'empathetic' is appended
\* to the tone list of the content type's pattern (or to the default list)
\* iff sentiment is negative; maxTokens is min(1.5 x config, 8000) and the
\* tag detailed_explanation is present iff complexity is high; the tags
\* appear in that order, temperature <= 1.0 and maxTokens <= 8000.
C13_StrategyAdjustments ==
    [][\A p \in Procs :
        (proc[p].pc = "idle" /\ proc'[p].pc = "awaiting") =>
            LET a == proc'[p].result.analysis
                st == proc'[p].result.responseStrategy
                config == models[proc'[p].result.selectedModel]
                urgent == a.urgency = "high"
                negative == a.sentiment = "negative"
                high == a.complexity = "high"
                toneBefore == IF a.contentType \in PatternKeys
                              THEN responsePatterns[a.contentType].tone
                              ELSE <<"professional">>
            IN /\ st.temperature = (IF urgent THEN Min(config.temperature + 2, 10)
                                    ELSE config.temperature)
               /\ st.maxTokens = (IF high THEN Min((config.maxTokens * 3) \div 2, 8000)
                                  ELSE config.maxTokens)
               /\ st.enhancements = (IF urgent THEN <<"urgent_response">> ELSE <<>>)
                                    \o (IF negative THEN <<"empathetic_tone">> ELSE <<>>)
                                    \o (IF high THEN <<"detailed_explanation">> ELSE <<>>)
               /\ ToneOf(st.tone, responsePatterns') =
                        toneBefore \o (IF negative THEN <<"empathetic">> ELSE <<>>)
               /\ st.temperature <= 10
               /\ st.maxTokens <= 8000
               /\ Len(st.enhancements) <= 3
      ]_vars

\* an invocation with all three adjustments
C13_Witness ==
    \E p \in Procs :
        /\ proc[p].pc = "awaiting"
        /\ proc[p].result.analysis.urgency = "high"
        /\ proc[p].result.analysis.sentiment = "negative"
        /\ proc[p].result.analysis.complexity = "high"
        /\ proc[p].result.responseStrategy.enhancements =
              <<"urgent_response", "empathetic_tone", "detailed_explanation">>
        /\ proc[p].result.responseStrategy.temperature =
              models[proc[p].result.selectedModel].temperature + 2
        /\ proc[p].result.responseStrategy.maxTokens = 6000

\* C14: confidence lies in [0.5, 1.0], and changing any one dimension of the
\* analysis (contentType, complexity, sentiment, urgency, domain, userIntent)
\* from its default to a non-default value raises it, unless it is already at
\* the cap.
C14_ConfidenceCountsEveryDimension ==
    analysis # NoAnalysis =>
        LET default == [contentType |-> "general", complexity |-> "low",
                        sentiment |-> "neutral", urgency |-> "normal",
                        domain |-> "general", userIntent |-> "general"]
            values == [contentType |-> {"conversation", "analysis", "review",
                                        "customer_service", "inquiry"},
                       complexity |-> {"medium", "high"},
                       sentiment |-> {"positive", "negative"},
                       urgency |-> {"high"},
                       domain |-> {"restaurant", "hospitality", "retail", "service",
                                   "technology"},
                       userIntent |-> {"question", "support", "feedback", "complaint",
                                       "recommendation"}]
        IN /\ selection.confidence >= 5
           /\ selection.confidence <= 10
           /\ \A d \in DOMAIN default :
                analysis[d] = default[d] =>
                    \A v \in values[d] :
                        \/ calculateConfidence([analysis EXCEPT ![d] = v]) > selection.confidence
                        \/ selection.confidence = 10

\* an input whose urgency is high and whose other dimensions are the
\* defaults, scored like an input with no keyword at all
C14_Witness ==
    /\ input = "now"
    /\ analysis # NoAnalysis
    /\ analysis.urgency = "high"
    /\ selection.confidence = 5

-----------------------------------------------------------------------------
(***************************************************************************)
(* The response quality analyzer (utils/responseQualityAnalyzer.js).       *)
(*                                                                         *)
(* A score is a record [n, d, e]: the double n/d displaced by e units of   *)
(* 2^-55.  The displacement is what the repeated += 0.1 and += 0.2 of the  *)
(* source leave behind in IEEE-754 arithmetic (0.5 + 0.2 + 0.1 is          *)
(* 0.7999999999999999, below the literal 0.8, while 0.5 + 0.1 + 0.2 is the *)
(* literal 0.8), and it decides the comparisons against 0.5, 0.6 and 0.8.  *)
(* The quotients and products of the other metrics compare against those   *)
(* literals as their exact values do, and carry e = 0.                     *)
(***************************************************************************)

RECURSIVE GCD(_, _)
GCD(a, b) == IF b = 0 THEN a ELSE GCD(b, a % b)

\* the score n/d displaced by e, in lowest terms
Score(n, d, e) ==
    LET g == GCD(n, d)
    IN [n |-> n \div g, d |-> d \div g, e |-> e]

\* score >= tenths / 10, tenths being the literal the source compares with
AtLeast(score, tenths) ==
    \/ score.n * 10 > tenths * score.d
    \/ score.n * 10 = tenths * score.d /\ score.e >= 0

\* the sums x + inc/10 of doubles x = t/10 + e * 2^-55 whose rounding moves
\* the last place: <<t, e, inc, t of the sum, e of the sum>>
RoundedSums ==
    {<<3, 2, -1, 2, 1>>, <<3, 2, 1, 4, 0>>, <<4, 0, -1, 3, 2>>, <<4, 0, 2, 6, 4>>,
     <<7, 0, 1, 8, -4>>, <<7, 0, 2, 9, -4>>, <<8, -4, -1, 7, 0>>, <<8, 0, -1, 7, 4>>,
     <<9, -4, 2, 11, -8>>, <<10, -4, 1, 11, -8>>}

\* score += inc / 10 (score -= for a negative inc) on doubles
AddTenths(x, inc) ==
    LET rounded == {r \in RoundedSums : r[1] = x.t /\ r[2] = x.e /\ r[3] = inc}
    IN IF rounded = {} THEN [t |-> x.t + inc, e |-> x.e]
       ELSE LET r == CHOOSE r \in rounded : TRUE
            IN [t |-> r[4], e |-> r[5]]

\* the base score 0.5 with the increments added in order
RECURSIVE AddAll(_, _)
AddAll(x, incs) ==
    IF incs = <<>> THEN x
    ELSE AddAll(IF Head(incs) = 0 THEN x ELSE AddTenths(x, Head(incs)), Tail(incs))

\* Math.min(Math.max(score, 0), 1) of 0.5 plus the increments
Clamped(incs) ==
    LET x == AddAll([t |-> 5, e |-> 0], incs)
    IN IF x.t > 10 \/ (x.t = 10 /\ x.e > 0) THEN Score(1, 1, 0)
       ELSE IF x.t < 0 \/ (x.t = 0 /\ x.e < 0) THEN Score(0, 1, 0)
       ELSE Score(x.t, 10, x.e)

\* the number of entries of words occurring in the lowercased response
CountIncluded(response, words) ==
    Cardinality({w \in words : Includes(ToLowerCase(response), w)})

\* s.split(c) for a one-character separator c
SplitChar(s, c) ==
    LET cuts == {i \in 1..Len(s) : CharAt(s, i) = c}
        cutAt(k) == IF k = 0 THEN 0
                    ELSE IF k > Cardinality(cuts) THEN Len(s) + 1
                    ELSE CHOOSE i \in cuts : Cardinality({j \in cuts : j <= i}) = k
    IN [k \in 1..(Cardinality(cuts) + 1) |-> SubSeq(s, cutAt(k - 1) + 1, cutAt(k) - 1)]

\* response.split(/[.!?]+/).filter(s => s.trim().length > 0)
SentencesOf(response) ==
    LET delim == {".", "!", "?"}
        starts == {i \in 1..Len(response) :
                     /\ CharAt(response, i) \notin delim
                     /\ i = 1 \/ CharAt(response, i - 1) \in delim}
        startOf(k) == CHOOSE i \in starts : Cardinality({j \in starts : j <= i}) = k
        endOf(i) == FirstNotIn(response, i, {CharAt(response, j) : j \in 1..Len(response)} \ delim) - 1
        pieces == [k \in 1..Cardinality(starts) |-> SubSeq(response, startOf(k), endOf(startOf(k)))]
        NonBlank(x) == Trim(x) # ""
    IN SelectSeq(pieces, NonBlank)

\* this.responsePatterns of the analyzer
QualityPatterns ==
    [conversation |->
        [requiredElements |-> <<"greeting", "main_content", "engagement">>,
         optimalLength |-> [min |-> 50, max |-> 200],
         tone |-> <<"friendly", "casual", "engaging">>,
         structure |-> <<"opening", "body", "closing">>],
     analysis |->
        [requiredElements |-> <<"summary", "key_points", "insights", "recommendations">>,
         optimalLength |-> [min |-> 150, max |-> 500],
         tone |-> <<"professional", "objective", "detailed">>,
         structure |-> <<"executive_summary", "detailed_analysis", "conclusions">>],
     customer_service |->
        [requiredElements |-> <<"acknowledgment", "understanding", "solution", "follow_up">>,
         optimalLength |-> [min |-> 100, max |-> 300],
         tone |-> <<"empathetic", "professional", "helpful">>,
         structure |-> <<"empathy", "problem_understanding", "solution", "next_steps">>],
     review |->
        [requiredElements |-> <<"experience", "highlights", "details", "recommendation">>,
         optimalLength |-> [min |-> 100, max |-> 400],
         tone |-> <<"personal", "authentic", "informative">>,
         structure |-> <<"context", "experience", "evaluation", "recommendation">>]]

\* this.responsePatterns[contentType] || this.responsePatterns.conversation
PatternFor(contentType) ==
    IF contentType \in DOMAIN QualityPatterns THEN QualityPatterns[contentType]
    ELSE QualityPatterns.conversation

findSynonyms(word) ==
    LET synonymMap ==
            [greeting |-> {"hello", "hi", "hey", "welcome"},
             main_content |-> {"content", "information", "details", "explanation"},
             engagement |-> {"interaction", "participation", "involvement"},
             summary |-> {"overview", "recap", "summary", "brief"},
             key_points |-> {"main points", "important points", "key findings"},
             insights |-> {"observations", "findings", "discoveries"},
             recommendations |-> {"suggestions", "advice", "recommendations"},
             acknowledgment |-> {"understand", "recognize", "acknowledge"},
             understanding |-> {"comprehend", "grasp", "understand"},
             solution |-> {"resolve", "fix", "address", "solve"},
             follow_up |-> {"next steps", "follow up", "continue"}]
    IN IF word \in DOMAIN synonymMap THEN synonymMap[word] ELSE {}

analyzeCoherence(response) ==
    IF response = "" THEN Score(0, 1, 0)
    ELSE LET sents == SentencesOf(response)
             len == Len(sents)
             transitions == {"however", "therefore", "furthermore", "moreover", "in addition",
                             "consequently", "as a result", "meanwhile", "subsequently"}
             lower(i) == ToLowerCase(sents[i])
             lastThree(ws) == SubSeq(ws, IF Len(ws) > 3 THEN Len(ws) - 2 ELSE 1, Len(ws))
             firstThree(ws) == SubSeq(ws, 1, Min(3, Len(ws)))
             hasContinuity(i) ==
                 LET prevWords == lastThree(SplitChar(lower(i - 1), " "))
                     currentWords == firstThree(SplitChar(lower(i), " "))
                 IN \E a \in 1..Len(prevWords) : \E b \in 1..Len(currentWords) :
                        prevWords[a] = currentWords[b]
             transitionCount == Cardinality({i \in 2..len : IncludesAny(lower(i), transitions)})
             \* coherenceScore, in fifths: 0.2 for each sentence continuing its predecessor
             coherenceScore == Cardinality({i \in 2..len : hasContinuity(i)})
             \* Math.min(transitionCount / len, 1) * 0.3, over 100 * len
             transitionScore == 30 * Min(transitionCount, len)
             \* Math.min(coherenceScore / len, 1) * 0.7, over 100 * len
             continuityScore == 7 * Min(2 * coherenceScore, 10 * len)
         IN IF len < 2 THEN Score(1, 2, 0)
            ELSE Score(Min(transitionScore + continuityScore, 100 * len), 100 * len, 0)

\* context is the list Object.values(context), given says that context is truthy
analyzeRelevance(response, context) ==
    IF response = "" \/ ~context.given THEN Score(1, 2, 0)
    ELSE LET responseWords == SplitChar(ToLowerCase(response), " ")
             contextWords == SplitChar(ToLowerCase(Join(context.values, " ")), " ")
             commonWords == {i \in 1..Len(responseWords) :
                               /\ \E j \in 1..Len(contextWords) : contextWords[j] = responseWords[i]
                               /\ Len(responseWords[i]) > 3}
         IN Score(Min(2 * Cardinality(commonWords), Len(responseWords)), Len(responseWords), 0)

analyzeCompleteness(response, contentType) ==
    IF response = "" THEN Score(0, 1, 0)
    ELSE LET requiredElements == PatternFor(contentType).requiredElements
             responseLower == ToLowerCase(response)
             hasElement(element) ==
                 LET elementWords == SplitChar(element, "_")
                 IN \E k \in 1..Len(elementWords) :
                        \/ Includes(responseLower, elementWords[k])
                        \/ IncludesAny(responseLower, findSynonyms(elementWords[k]))
             found == {i \in 1..Len(requiredElements) : hasElement(requiredElements[i])}
         IN Score(Cardinality(found), Len(requiredElements), 0)

\* the number of words of the sentences, as sentence.split(' ') counts them
SentenceWords(sents) ==
    LET count(i) == CountChars(sents[i], {" "}) + 1
        RECURSIVE sum(_)
        sum(i) == IF i = 0 THEN 0 ELSE count(i) + sum(i - 1)
    IN sum(Len(sents))

analyzeClarity(response) ==
    IF response = "" THEN Score(0, 1, 0)
    ELSE LET sents == SentencesOf(response)
             \* avgSentenceLength is total / Len(sents), and NaN without sentences
             total == SentenceWords(sents)
             isNaN == Len(sents) = 0
             complexWordCount == CountIncluded(response,
                 {"notwithstanding", "aforementioned", "subsequently", "consequently", "furthermore"})
             passiveCount == CountIncluded(response,
                 {"is being", "are being", "was being", "were being", "has been", "have been"})
         IN Clamped(<<IF ~isNaN /\ total <= 15 * Len(sents) THEN 2
                      ELSE IF ~isNaN /\ total <= 25 * Len(sents) THEN 1 ELSE -1,
                      IF complexWordCount = 0 THEN 2
                      ELSE IF complexWordCount <= 2 THEN 1 ELSE -1,
                      IF passiveCount = 0 THEN 1 ELSE -1>>)

analyzeEngagement(response) ==
    IF response = "" THEN Score(0, 1, 0)
    ELSE LET questionCount == CountChars(response, {"?"})
             pronounCount == CountIncluded(response, {"you", "your", "we", "our", "us"})
             emotionalCount == CountIncluded(response,
                 {"amazing", "fantastic", "wonderful", "excellent", "great", "love", "enjoy",
                  "appreciate"})
             hasCallToAction == CountIncluded(response,
                 {"try", "consider", "think about", "imagine", "suppose"}) > 0
         IN Clamped(<<IF questionCount > 0 THEN 2 ELSE 0,
                      IF pronounCount >= 3 THEN 2 ELSE IF pronounCount >= 1 THEN 1 ELSE 0,
                      IF emotionalCount >= 2 THEN 1 ELSE 0,
                      IF hasCallToAction THEN 1 ELSE 0>>)

\* the number of pieces of response.split(/\n\s*\n/) with a character that is
\* not white space: two such characters lie in different pieces iff the white
\* space between them holds two line feeds
ParagraphCount(response) ==
    LET solid == {i \in 1..Len(response) : CharAt(response, i) \notin WhiteSpace}
        breaks == {i \in solid :
                     /\ \E j \in solid : j > i
                     /\ LET next == CHOOSE j \in solid : j > i /\ \A k \in solid : k > i => j <= k
                        IN Cardinality({k \in (i + 1)..(next - 1) : CharAt(response, k) = "\n"}) >= 2}
    IN IF solid = {} THEN 0 ELSE Cardinality(breaks) + 1

\* /\n\s*[-*@]\s/.test(response), "@" standing for the bullet character
HasBulletPoints(response) ==
    \E i \in 1..Len(response) :
        /\ CharAt(response, i) = "\n"
        /\ \E j \in (i + 1)..(Len(response) - 1) :
              /\ \A k \in (i + 1)..(j - 1) : CharAt(response, k) \in WhiteSpace
              /\ CharAt(response, j) \in {"-", "*", "@"}
              /\ CharAt(response, j + 1) \in WhiteSpace

\* /\n\s*\d+[.)]\s/.test(response)
HasNumberedList(response) ==
    \E i \in 1..Len(response) :
        /\ CharAt(response, i) = "\n"
        /\ \E j \in (i + 1)..(Len(response) - 2) : \E m \in j..(Len(response) - 2) :
              /\ \A k \in (i + 1)..(j - 1) : CharAt(response, k) \in WhiteSpace
              /\ \A k \in j..m : CharAt(response, k) \in Digits
              /\ CharAt(response, m + 1) \in {".", ")"}
              /\ CharAt(response, m + 2) \in WhiteSpace

analyzeStructure(response, contentType) ==
    IF response = "" THEN Score(0, 1, 0)
    ELSE LET indicatorCount == CountIncluded(response,
                 {"first", "second", "third", "finally", "in conclusion", "to summarize", "overall"})
         IN Clamped(<<IF ParagraphCount(response) >= 2 THEN 2 ELSE 0,
                      IF indicatorCount >= 2 THEN 2 ELSE IF indicatorCount >= 1 THEN 1 ELSE 0,
                      IF HasBulletPoints(response) \/ HasNumberedList(response) THEN 1 ELSE 0>>)

analyzeTone(response, contentType) ==
    IF response = "" THEN Score(0, 1, 0)
    ELSE LET expectedTones == PatternFor(contentType).tone
             toneIndicators ==
                 [professional |-> {"professional", "expert", "analysis", "recommendation", "assessment"},
                  casual |-> {"cool", "awesome", "great", "nice", "fun"},
                  friendly |-> {"hello", "hi", "thanks", "appreciate", "welcome"},
                  empathetic |-> {"understand", "sorry", "apologize", "care", "concern"},
                  formal |-> {"therefore", "consequently", "furthermore", "moreover", "thus"}]
             hasTone(expectedTone) ==
                 /\ expectedTone \in DOMAIN toneIndicators
                 /\ IncludesAny(ToLowerCase(response), toneIndicators[expectedTone])
         IN Clamped([i \in 1..Len(expectedTones) |-> IF hasTone(expectedTones[i]) THEN 2 ELSE 0])

analyzeLength(response, contentType) ==
    IF response = "" THEN Score(0, 1, 0)
    ELSE LET optimalLength == PatternFor(contentType).optimalLength
             wordCount == CountChars(response, {" "}) + 1
             min == optimalLength.min
             max == optimalLength.max
         IN IF wordCount >= min /\ wordCount <= max THEN Score(1, 1, 0)
            ELSE IF wordCount * 10 >= min * 8 /\ wordCount * 10 <= max * 12 THEN Score(8, 10, 0)
            ELSE IF wordCount * 10 >= min * 6 /\ wordCount * 10 <= max * 14 THEN Score(6, 10, 0)
            ELSE Score(3, 10, 0)

\* the keys of the metrics record, in the order of the source
MetricNames ==
    <<"coherence", "relevance", "completeness", "clarity", "engagement", "structure", "tone",
      "length">>

LCM(a, b) == (a \div GCD(a, b)) * b

\* the weights of calculateOverallScore, in hundredths
UniformWeights == [name \in {MetricNames[i] : i \in 1..8} |-> 10]

Weights ==
    [coherence |-> 15, relevance |-> 15, completeness |-> 15, clarity |-> 15,
     engagement |-> 10, structure |-> 10, tone |-> 10, length |-> 10]

\* the weighted mean of the metrics under the weights w: totalScore over
\* totalWeight, computed on the decimal values n/d (no comparison of the
\* source reads the last place of the quotient)
WeightedMean(metrics, w) ==
    LET RECURSIVE common(_)
        common(i) == IF i = 0 THEN 1 ELSE LCM(common(i - 1), metrics[MetricNames[i]].d)
        den == common(8)
        RECURSIVE totalScore(_)
        totalScore(i) ==
            IF i = 0 THEN 0
            ELSE totalScore(i - 1)
                   + w[MetricNames[i]] * metrics[MetricNames[i]].n * (den \div metrics[MetricNames[i]].d)
        RECURSIVE totalWeight(_)
        totalWeight(i) == IF i = 0 THEN 0 ELSE totalWeight(i - 1) + w[MetricNames[i]]
    IN IF totalWeight(8) > 0 THEN Score(totalScore(8), den * totalWeight(8), 0)
       ELSE Score(0, 1, 0)

calculateOverallScoreUnweighted(metrics) == WeightedMean(metrics, UniformWeights)

calculateOverallScore(metrics) == WeightedMean(metrics, Weights)

StrengthLabels ==
    [coherence |-> "Excellent logical flow and coherence",
     relevance |-> "Highly relevant to the context",
     completeness |-> "Comprehensive and complete response",
     clarity |-> "Clear and easy to understand",
     engagement |-> "Engaging and interactive",
     structure |-> "Well-structured and organized",
     tone |-> "Appropriate tone for the context",
     length |-> "Optimal length for the content type"]

WeaknessLabels ==
    [coherence |-> "Poor logical flow and coherence",
     relevance |-> "Low relevance to the context",
     completeness |-> "Incomplete response",
     clarity |-> "Unclear or confusing",
     engagement |-> "Not engaging enough",
     structure |-> "Poor structure and organization",
     tone |-> "Inappropriate tone",
     length |-> "Length not appropriate for content type"]

SuggestionLabels ==
    [coherence |-> "Add transition words to improve flow between ideas",
     relevance |-> "Focus more on the specific context and user needs",
     completeness |-> "Include more comprehensive information and details",
     clarity |-> "Use shorter sentences and simpler language",
     engagement |-> "Add questions or personal pronouns to increase engagement",
     structure |-> "Organize content with clear sections and bullet points",
     tone |-> "Adjust tone to better match the expected style",
     length |-> "Adjust response length to better fit the content type"]

\* the labels of the metrics passing Test, pushed in the order of the source
LabelsWhere(labels, Test(_)) ==
    LET kept == SelectSeq(MetricNames, Test)
    IN [i \in 1..Len(kept) |-> labels[kept[i]]]

identifyStrengths(metrics) ==
    LET Test(name) == AtLeast(metrics[name], 8)
    IN LabelsWhere(StrengthLabels, Test)

identifyWeaknessesBelowSeven(metrics) ==
    LET Test(name) == ~AtLeast(metrics[name], 7)
    IN LabelsWhere(WeaknessLabels, Test)

identifyWeaknesses(metrics) ==
    LET Test(name) == ~AtLeast(metrics[name], 5)
    IN LabelsWhere(WeaknessLabels, Test)

generateSuggestionsForWeaknesses(a) ==
    LET Test(name) == ~AtLeast(a.metrics[name], 5)
    IN LabelsWhere(SuggestionLabels, Test)

generateSuggestions(a) ==
    LET Test(name) == ~AtLeast(a.metrics[name], 6)
    IN LabelsWhere(SuggestionLabels, Test)

\* !value
Falsy(value) ==
    \/ value.type \in {"null", "undefined"}
    \/ value.type = "string" /\ value.str = ""
    \/ value.type \in {"number", "boolean"} /\ value.num = 0

\* a call that ended by throwing a TypeError
Thrown(op) == [op |-> op, threw |-> TRUE, value |-> Undefined]

\* analyzeResponseQuality(response, contentType, context).  A falsy response
\* leaves every analyzer by its first guard, as the empty string does.  A
\* truthy response that is not a string passes the guard of analyzeRelevance
\* (or, without a context, of analyzeCompleteness) and fails on
\* response.toLowerCase().
analyzeResponseQuality(response, contentType, context) ==
    IF ~Falsy(response) /\ response.type # "string" THEN Thrown("analyzeResponseQuality")
    ELSE LET r == IF Falsy(response) THEN "" ELSE response.str
             metrics ==
                 [coherence |-> analyzeCoherence(r),
                  relevance |-> analyzeRelevance(r, context),
                  completeness |-> analyzeCompleteness(r, contentType),
                  clarity |-> analyzeClarity(r),
                  engagement |-> analyzeEngagement(r),
                  structure |-> analyzeStructure(r, contentType),
                  tone |-> analyzeTone(r, contentType),
                  length |-> analyzeLength(r, contentType)]
         IN [op |-> "analyzeResponseQuality", threw |-> FALSE,
             overallScore |-> calculateOverallScore(metrics),
             metrics |-> metrics,
             strengths |-> identifyStrengths(metrics),
             weaknesses |-> identifyWeaknesses(metrics),
             suggestions |-> generateSuggestions([metrics |-> metrics])]


-----------------------------------------------------------------------------
(* analyzeResponseQuality applied to one response *)

JSString(s) == JSValue("string", s, 0)
JSNumber(n) == JSValue("number", "", n)
JSNull == JSValue("null", "", 0)

QualityOpenings == {"", "Hello! "}

QualityBodies ==
    {"great food",
     "Is it for you?",
     "Thanks, you will love our great menu. Try it?",
     "first point.\n\nsecond point\n- item",
     "The summary has key insights. Therefore insights lead to recommendations",
     "We are sorry. We understand the issue. The solution is to follow up",
     "It has been notwithstanding aforementioned subsequently",
     "...",
     "My experience had highlights and details. Details support the recommendation"}

QualityPaddings == {"", Repeat(" a", 30), Repeat(" a", 45)}

QualityResponses ==
    {JSString(a \o b \o c) : a \in QualityOpenings, b \in QualityBodies, c \in QualityPaddings}
        \cup {JSString(""), JSNull, Undefined, JSNumber(0), JSNumber(42)}

QualityContentTypes == {"general", "conversation", "analysis", "customer_service", "review"}

QualityContexts ==
    {[given |-> FALSE, values |-> <<>>],
     [given |-> TRUE, values |-> <<>>],
     [given |-> TRUE, values |-> <<"great menu", "Details of the summary">>]}

InitQuality ==
    /\ LlamaIdle
    /\ qualityRequest \in [response : QualityResponses, contentType : QualityContentTypes,
                           context : QualityContexts]
    /\ qualityAnalysis = NoQuality
    /\ CallIdle
    /\ SelectorIdle
    /\ FormatterIdle
    /\ DetectorIdle

\* one call of analyzeResponseQuality(response, contentType, context)
AnalyzeQuality ==
    /\ qualityAnalysis = NoQuality
    /\ qualityAnalysis' = analyzeResponseQuality(qualityRequest.response,
                              qualityRequest.contentType, qualityRequest.context)
    /\ UNCHANGED <<qualityRequest, argument, returned, selectorVars, formatterVars, detectorVars, llamaVars>>

NextQuality == AnalyzeQuality

SpecQuality == InitQuality /\ [][NextQuality]_vars

\* the analysis record of a call that returned
Analyzed == qualityAnalysis # NoQuality /\ ~qualityAnalysis.threw

\* 0 <= score <= 1
InUnit(score) ==
    /\ score.d > 0
    /\ score.n > 0 \/ (score.n = 0 /\ score.e >= 0)
    /\ score.n < score.d \/ (score.n = score.d /\ score.e <= 0)

\* C15: each of the eight metrics of a returned analysis lies in [0, 1], and
\* overallScore is 0.15 * (coherence + relevance + completeness + clarity)
\* + 0.10 * (engagement + structure + tone + length), hence in [0, 1] too.
C15_MetricsAndOverallInUnit ==
    Analyzed =>
        LET m == qualityAnalysis.metrics
            den == LCM(LCM(LCM(m.coherence.d, m.relevance.d), LCM(m.completeness.d, m.clarity.d)),
                       LCM(LCM(m.engagement.d, m.structure.d), LCM(m.tone.d, m.length.d)))
            part(name) == m[name].n * (den \div m[name].d)
        IN /\ \A i \in 1..8 : InUnit(m[MetricNames[i]])
           /\ qualityAnalysis.overallScore =
                 Score(15 * (part("coherence") + part("relevance") + part("completeness")
                               + part("clarity"))
                         + 10 * (part("engagement") + part("structure") + part("tone")
                                   + part("length")),
                       100 * den, 0)
           /\ InUnit(qualityAnalysis.overallScore)

\* an analysis whose metrics differ from one another, the length at 1 and the
\* coherence below one half
C15_Witness ==
    /\ Analyzed
    /\ qualityAnalysis.metrics.length = Score(1, 1, 0)
    /\ qualityAnalysis.metrics.relevance.n > 0
    /\ ~AtLeast(qualityAnalysis.metrics.coherence, 5)
    /\ qualityAnalysis.metrics.coherence.n > 0
    /\ AtLeast(qualityAnalysis.metrics.tone, 7)


\* the entries of list, as a set
Range(list) == {list[i] : i \in 1..Len(list)}

\* list holds labels of distinct metrics, in the order of the metrics
InMetricOrder(list, labels) ==
    \A i \in 1..Len(list) :
        /\ \E k \in 1..8 : list[i] = labels[MetricNames[k]]
        /\ \A j \in (i + 1)..Len(list) :
              \E k \in 1..8 : \E l \in (k + 1)..8 :
                  list[i] = labels[MetricNames[k]] /\ list[j] = labels[MetricNames[l]]

\* C16: the three lists are filled per metric by fixed thresholds: a
\* metric's strength label is in strengths iff the metric is >= 0.8, its
\* weakness label in weaknesses iff the metric is < 0.5, its hint in
\* suggestions iff the metric is < 0.6; each list holds at most one entry per
\* metric, in the order coherence, relevance, completeness, clarity,
\* engagement, structure, tone, length.
C16_LabelsByThreshold ==
    Analyzed =>
        /\ \A k \in 1..8 :
              LET name == MetricNames[k]
                  metric == qualityAnalysis.metrics[name]
              IN /\ StrengthLabels[name] \in Range(qualityAnalysis.strengths)
                        <=> AtLeast(metric, 8)
                 /\ WeaknessLabels[name] \in Range(qualityAnalysis.weaknesses)
                        <=> ~AtLeast(metric, 5)
                 /\ SuggestionLabels[name] \in Range(qualityAnalysis.suggestions)
                        <=> ~AtLeast(metric, 6)
        /\ InMetricOrder(qualityAnalysis.strengths, StrengthLabels)
        /\ InMetricOrder(qualityAnalysis.weaknesses, WeaknessLabels)
        /\ InMetricOrder(qualityAnalysis.suggestions, SuggestionLabels)

\* an analysis with a metric on each side of every threshold: the coherence
\* of a single sentence is 0.5 (a hint, no weakness), the engagement is
\* 0.5 + 0.2 + 0.1, which is below 0.8 in double arithmetic (no strength)
C16_Witness ==
    /\ Analyzed
    /\ qualityAnalysis.metrics.coherence = Score(1, 2, 0)
    /\ qualityAnalysis.metrics.engagement = Score(8, 10, -4)
    /\ qualityAnalysis.metrics.length = Score(3, 10, 0)
    /\ qualityAnalysis.strengths = <<"Clear and easy to understand">>
    /\ qualityAnalysis.weaknesses =
          <<"Incomplete response", "Length not appropriate for content type">>
    /\ Len(qualityAnalysis.suggestions) = 6
    /\ qualityAnalysis.suggestions[1] = SuggestionLabels.coherence


-----------------------------------------------------------------------------
(* The caps of the list sections *)

\* the list sections of the renderer of the given type: heading, items, cap,
\* numbering or item prefix, and whether the renderer emits the section
Section(heading, items, cap, numbered, prefix, present) ==
    [heading |-> heading, items |-> items, cap |-> cap, numbered |-> numbered,
     prefix |-> prefix, present |-> present]

ListSection(heading, keywords, cap, numbered, prefix) ==
    LET items == FilterIncluding(sentences, keywords)
    IN Section(heading, items, cap, numbered, prefix, Len(items) > 0)

BucketSection(heading, items, cap) ==
    Section(heading, items, cap, FALSE, "   @ ", Len(items) > 0)

ListSections ==
    CASE structure.type = "review" ->
           {BucketSection("+ What I Really Enjoyed:", structure.positiveAspects, 4),
            BucketSection("^w Areas for Improvement:", structure.negativeAspects, 3),
            ListSection("^s Memorable Highlights:",
                {"highlight", "memorable", "standout", "impressive", "notable"}, 3, TRUE, ""),
            ListSection("^h Atmosphere & Environment:",
                {"atmosphere", "ambiance", "environment", "setting", "vibe", "feel"}, 2, FALSE, "   "),
            ListSection("^v Value & Pricing:",
                {"price", "cost", "value", "worth", "expensive", "affordable"}, 2, FALSE, "   "),
            BucketSection("^i Recommendations:", structure.suggestions, 3)}
      [] structure.type = "analysis" ->
           {ListSection("^f Detailed Findings:",
                {"found", "discovered", "identified", "detected", "observed", "noticed"}, 5, TRUE, ""),
            ListSection("^j Sentiment Analysis:",
                {"positive", "negative", "neutral", "sentiment", "emotion", "tone"}, 3, FALSE, "   @ "),
            Section("-Specific Insights:",
                FilterIncluding(sentences, Range(structure.topics)), 3, TRUE, "",
                Len(structure.topics) > 0),
            BucketSection("^i Strategic Recommendations:", structure.suggestions, 4),
            ListSection("^r Action Items & Next Steps:",
                {"action", "next", "step", "plan", "implement", "improve"}, 4, TRUE, ""),
            ListSection("^g Impact Assessment:",
                {"impact", "effect", "result", "outcome", "consequence"}, 2, FALSE, "   @ ")}
      [] structure.type = "customer_service" ->
           {ListSection("^c Understanding Your Situation:",
                {"situation", "circumstance", "experience", "issue", "problem", "concern"},
                3, FALSE, "   @ "),
            ListSection("^z Immediate Solutions:",
                {"solution", "resolve", "fix", "address", "correct", "improve"}, 4, TRUE, ""),
            ListSection("^r Long-term Improvements:",
                {"improve", "enhance", "better", "upgrade", "develop", "advance"}, 3, FALSE, "   @ "),
            ListSection("^y Goodwill Gestures:",
                {"compensate", "refund", "discount", "credit", "offer", "gesture"}, 2, FALSE, "   @ ")}
      [] structure.type = "conversation" ->
           {Section("^p My Perspective:",
                FilterIncluding(sentences, {"think", "believe", "feel", "experience", "opinion", "view"}),
                2, FALSE, "   ",
                /\ IncludesAny(ToLowerCase(Join(sentences, " ")), {"think", "believe", "feel"})
                /\ FilterIncluding(sentences,
                       {"think", "believe", "feel", "experience", "opinion", "view"}) # <<>>)}
      [] OTHER ->
           {Section("^c Detailed Explanation:", SubSeq(sentences, 2, Len(sentences)), 5, TRUE, "",
                Len(sentences) > 1),
            ListSection("^i Key Insights:",
                {"important", "key", "essential", "critical", "significant", "notable"},
                3, FALSE, "   @ "),
            ListSection("^f Practical Examples:",
                {"example", "instance", "case", "scenario", "situation", "application"}, 2, TRUE, "")}

\* the heading of a section followed by the lines of its first min(cap, n)
\* items, in the order of the items, and by the line after them
SectionBlock(s) ==
    s.heading \o "\n"
      \o ConcatAll([i \in 1..Min(s.cap, Len(s.items)) |->
            (IF s.numbered THEN "   " \o CharAt("123456789", i) \o ". " ELSE s.prefix)
               \o ToUpperCase(CharAt(s.items[i], 1)) \o SubSeq(s.items[i], 2, Len(s.items[i]))
               \o ".\n"])
      \o "\n"

\* C17: every list section a renderer emits consists of its heading and
\* exactly min(cap, n) item lines, the first items of the section in source
\* order, with the caps review 4/3/3/2/2/3, analysis 5/3/3/4/4/2,
\* customer_service 3/4/3/2, general 5/3/2 and conversation 2; a section that
\* is not emitted leaves no heading.  Ten sentences matching positive
\* keywords give four bullets under 'What I Really Enjoyed'.
C17_SectionCaps ==
    applied = 1 =>
        \A s \in ListSections :
            IF s.present THEN Includes(out \o "\n\n", SectionBlock(s))
            ELSE ~Includes(out, s.heading)

\* ten sentences with a positive keyword, four of them under the heading
C17_Witness ==
    /\ applied = 1
    /\ structure.type = "review"
    /\ Len(structure.positiveAspects) = 10
    /\ Len(structure.negativeAspects) = 10
    /\ Includes(out, "   @ Good bad notable vibe price could food d.\n\n^w Areas")
    /\ ~Includes(out, "food e")


-----------------------------------------------------------------------------
(* The exported operations called with one arbitrary JavaScript value *)

\* a call that returned value
Returned(op, value) == [op |-> op, threw |-> FALSE, value |-> value]

\* cleanAIResponse(value) with every non-string argument turned into a string first
CleanCallCoercing(value) ==
    Returned("cleanAIResponse",
             JSString(IF value.type = "string" THEN cleanAIResponse(value.str) ELSE ""))

\* cleanAIResponse(value): the guard returns a falsy or non-string argument as it is
CleanCall(value) ==
    IF Falsy(value) \/ value.type # "string" THEN Returned("cleanAIResponse", value)
    ELSE Returned("cleanAIResponse", JSString(cleanAIResponse(value.str)))

\* formatForEnhancedDepthAndRelevance(value), with the same guard
FormatCall(value) ==
    IF Falsy(value) \/ value.type # "string"
    THEN Returned("formatForEnhancedDepthAndRelevance", value)
    ELSE Returned("formatForEnhancedDepthAndRelevance",
                  JSString(formatForEnhancedDepthAndRelevance(value.str)))

\* analyzeInputAndSelectModel(value): detectContentType starts with
\* input.toLowerCase(), a TypeError for every value that is not a string,
\* which rejects the promise the async function returns
SelectCall(ms, ps, value) ==
    IF value.type # "string"
    THEN [call |-> Thrown("analyzeInputAndSelectModel"), models |-> ms, responsePatterns |-> ps]
    ELSE LET r == analyzeInputAndSelectModel(ms, ps, value.str)
         IN [call |-> [op |-> "analyzeInputAndSelectModel", threw |-> FALSE,
                       value |-> Resolve(r.result, r.responsePatterns)],
             models |-> r.models, responsePatterns |-> r.responsePatterns]

JSObject == JSValue("object", "", 0)
JSBoolean(b) == JSValue("boolean", "", IF b THEN 1 ELSE 0)

CallStrings ==
    {"", "...", "   ", "?!", "\n", "abc", "great food", "hello there", "my analysis",
     "an issue", "overall ok", "so bad", "reply now", "why?", "Here's the plan", "- item",
     "The meal was good. I recommend it", "Is it for you?", "!!!", "contact us. bad service",
     "**Note** abc", "how about you", "i feel fine. we think so"}

CallArguments ==
    {JSNull, Undefined, JSNumber(0), JSNumber(42), JSBoolean(FALSE), JSBoolean(TRUE), JSObject}
        \cup {JSString(s) : s \in CallStrings}

InitCalls ==
    /\ LlamaIdle
    /\ argument \in CallArguments
    /\ returned = NoCall
    /\ QualityIdle
    /\ SelectorIdle
    /\ FormatterIdle
    /\ DetectorIdle

CallCleanAIResponse ==
    /\ returned = NoCall
    /\ returned' = CleanCall(argument)
    /\ UNCHANGED <<argument, qualityRequest, qualityAnalysis, selectorVars, formatterVars, detectorVars, llamaVars>>

CallFormat ==
    /\ returned = NoCall
    /\ returned' = FormatCall(argument)
    /\ UNCHANGED <<argument, qualityRequest, qualityAnalysis, selectorVars, formatterVars, detectorVars, llamaVars>>

CallSelect ==
    /\ returned = NoCall
    /\ LET r == SelectCall(models, responsePatterns, argument)
       IN /\ returned' = r.call
          /\ models' = r.models
          /\ responsePatterns' = r.responsePatterns
    /\ UNCHANGED <<argument, qualityRequest, qualityAnalysis, proc, calls, formatterVars, detectorVars, llamaVars>>

\* analyzeResponseQuality(value), with the defaults of its other parameters
CallQuality ==
    /\ returned = NoCall
    /\ returned' = analyzeResponseQuality(argument, "general", [given |-> TRUE, values |-> <<>>])
    /\ UNCHANGED <<argument, qualityRequest, qualityAnalysis, selectorVars, formatterVars, detectorVars, llamaVars>>

NextCalls == CallCleanAIResponse \/ CallFormat \/ CallSelect \/ CallQuality

SpecCalls == InitCalls /\ [][NextCalls]_vars

\* the one line the general renderer writes for an empty sentence list
GeneralClosing ==
    "^t In summary, this topic encompasses multiple important aspects that deserve careful consideration and thoughtful discussion."

C19_EmptyListReached ==
    /\ argument = JSString("...")
    /\ returned.op = "formatForEnhancedDepthAndRelevance"
    /\ returned.value = JSString(GeneralClosing)

\* C20: analyzeInputAndSelectModel and analyzeResponseQuality return a
\* result record, never an error, for every input value (null, undefined,
\* the empty string, values that are not strings), and the quality analysis
\* of an empty response returns the zero scores with the baseline relevance.
C20_NeverThrows ==
    returned.op \in {"analyzeInputAndSelectModel", "analyzeResponseQuality"} =>
        /\ ~returned.threw
        /\ (returned.op = "analyzeResponseQuality" /\ Falsy(argument)) =>
              \A i \in 1..8 :
                  returned.metrics[MetricNames[i]] =
                      (IF MetricNames[i] = "relevance" THEN Score(1, 2, 0) ELSE Score(0, 1, 0))

\* null handed to analyzeInputAndSelectModel: the call ends in a TypeError
C20_Witness ==
    /\ argument = JSNull
    /\ returned.op = "analyzeInputAndSelectModel"
    /\ returned.threw


-----------------------------------------------------------------------------
(* The three lists of an analysis, taken together *)

\* the metrics whose label of the given table is in list
Contributors(list, labels) ==
    {k \in 1..8 : labels[MetricNames[k]] \in Range(list)}

\* C29: in a returned analysis no metric contributes both a strength and a
\* weakness or a suggestion, every metric that contributes a weakness also
\* contributes a suggestion, so that weaknesses is no longer than
\* suggestions, and strengths and suggestions together hold at most 8 entries.
C29_ListsConsistent ==
    Analyzed =>
        LET strong == Contributors(qualityAnalysis.strengths, StrengthLabels)
            weak == Contributors(qualityAnalysis.weaknesses, WeaknessLabels)
            hinted == Contributors(qualityAnalysis.suggestions, SuggestionLabels)
        IN /\ strong \cap (weak \cup hinted) = {}
           /\ weak \subseteq hinted
           /\ Len(qualityAnalysis.weaknesses) <= Len(qualityAnalysis.suggestions)
           /\ Len(qualityAnalysis.strengths) + Len(qualityAnalysis.suggestions) <= 8

\* an analysis with entries in all three lists, a metric that contributes a
\* suggestion and no weakness, and a metric that contributes to no list
C29_Witness ==
    /\ Analyzed
    /\ qualityAnalysis.strengths # <<>>
    /\ qualityAnalysis.weaknesses # <<>>
    /\ Len(qualityAnalysis.suggestions) > Len(qualityAnalysis.weaknesses)
    /\ \E k \in 1..8 :
          /\ AtLeast(qualityAnalysis.metrics[MetricNames[k]], 6)
          /\ ~AtLeast(qualityAnalysis.metrics[MetricNames[k]], 8)
    /\ Len(qualityAnalysis.strengths) + Len(qualityAnalysis.suggestions) < 8


-----------------------------------------------------------------------------
(* The structure analysis and the conversation renderer, called on sentence
   lists of any shape: with question marks, capitals and repeated sentences *)

StructureCorpus ==
    <<"Is the app cool?", "the restaurant was great", "what do you think of it",
      "how about the Main room", "an interesting idea?", "you should buy it",
      "a bad key", "we like the good help here", "plain words only", "so it goes">>

StructureLists ==
    {Pick(StructureCorpus, picks) : picks \in {q \in SUBSET (1..Len(StructureCorpus)) :
                                        Cardinality(q) >= 1 /\ Cardinality(q) <= MaxSentences}}
        \cup {<<"a bad key", "a bad key">>,
              <<"so it goes", "a bad key", "Is the app cool?", "a bad key">>,
              <<"plain words only", "any thoughts on the hotel", "your opinion counts here">>,
              <<"Is the app cool?", "plain words only", "we consider it fully",
                "we like the good help here">>,
              <<"we consider it fully", "plain words only", "nothing more to say">>}

InitStructure ==
    /\ LlamaIdle
    /\ sentences \in StructureLists
    /\ text = ""
    /\ structure = [type |-> "none"]
    /\ out = ""
    /\ applied = 0
    /\ SelectorIdle
    /\ AnalyzerIdle
    /\ DetectorIdle

\* one call of analyzeEnhancedContentStructure(sentences)
AnalyzeStructure ==
    /\ applied = 0
    /\ structure' = analyzeEnhancedContentStructure(sentences)
    /\ applied' = 1
    /\ UNCHANGED <<text, sentences, out, selectorVars, detectorVars, analyzerVars, llamaVars>>

\* one call of formatEnhancedConversationResponse(sentences, structure)
RenderConversation ==
    /\ applied = 1
    /\ out' = formatEnhancedConversationResponse(sentences, structure)
    /\ applied' = 2
    /\ UNCHANGED <<text, sentences, structure, selectorVars, detectorVars, analyzerVars, llamaVars>>

NextStructure == AnalyzeStructure \/ RenderConversation

SpecStructure == InitStructure /\ [][NextStructure]_vars

\* the text the structure analysis searches
SearchedText == ToLowerCase(Join(sentences, " "))

\* the topic groups: trigger words and labels
TopicGroups ==
    {[triggers |-> {"food", "restaurant", "dining", "meal"},
      labels |-> {"restaurant", "food", "dining"}],
     [triggers |-> {"hotel", "accommodation", "room", "stay"},
      labels |-> {"hotel", "accommodation", "travel"}],
     [triggers |-> {"product", "item", "purchase", "buy"},
      labels |-> {"product", "shopping", "consumer"}],
     [triggers |-> {"service", "support", "help", "assistance"},
      labels |-> {"service", "support", "customer care"}],
     [triggers |-> {"app", "software", "technology", "digital"},
      labels |-> {"technology", "software", "digital"}]}

\* C22: the three labels of a topic group are all in topics iff one of the
\* group's trigger words occurs in the searched text, and none of them is
\* otherwise; no label occurs twice and topics holds nothing but labels.
C22_TopicsAllOrNothing ==
    applied >= 1 =>
        LET topics == structure.topics
        IN /\ \A g \in TopicGroups :
                 IF \E w \in g.triggers : Includes(SearchedText, w)
                 THEN g.labels \subseteq Range(topics)
                 ELSE g.labels \cap Range(topics) = {}
           /\ \A i, j \in 1..Len(topics) : topics[i] = topics[j] => i = j
           /\ Range(topics) \subseteq UNION {g.labels : g \in TopicGroups}

\* a text with restaurant and app and no other trigger word gives the two
\* groups, the restaurant group first
C22_Witness ==
    /\ applied >= 1
    /\ Includes(SearchedText, "restaurant")
    /\ Includes(SearchedText, "app")
    /\ structure.topics =
          <<"restaurant", "food", "dining", "technology", "software", "digital">>

\* part is a subsequence of whole: its entries are entries of whole at
\* strictly increasing positions
IsSubsequence(part, whole) ==
    \E at \in [1..Len(part) -> 1..Len(whole)] :
        /\ \A i \in 1..Len(part) : whole[at[i]] = part[i]
        /\ \A i, j \in 1..Len(part) : i < j => at[i] < at[j]

\* C23: every bucket of the structure is an order-preserving subsequence of
\* the sentences; questions holds exactly the sentences with a question
\* mark and statements exactly the others, in the order of the sentences;
\* totalSentences is the number of sentences.
C23_BucketsFromSentences ==
    applied >= 1 =>
        /\ \A bucket \in {structure.keyPoints, structure.positiveAspects,
                          structure.negativeAspects, structure.suggestions,
                          structure.questions, structure.statements} :
              IsSubsequence(bucket, sentences)
        /\ \A i \in 1..Len(structure.questions) : Includes(structure.questions[i], "?")
        /\ \A i \in 1..Len(structure.statements) : ~Includes(structure.statements[i], "?")
        /\ Len(structure.questions) + Len(structure.statements) = Len(sentences)
        /\ Len(structure.questions)
              = Cardinality({i \in 1..Len(sentences) : Includes(sentences[i], "?")})
        /\ structure.totalSentences = Len(sentences)

\* a list with a repeated sentence, a question between the repetitions, and
\* a sentence in two of the overlapping buckets
C23_Witness ==
    /\ applied >= 1
    /\ sentences = <<"so it goes", "a bad key", "Is the app cool?", "a bad key">>
    /\ structure.questions = <<"Is the app cool?">>
    /\ structure.statements = <<"so it goes", "a bad key", "a bad key">>
    /\ structure.keyPoints = <<"a bad key", "a bad key">>
    /\ structure.negativeAspects = structure.keyPoints
    /\ structure.totalSentences = 4

\* the follow-up phrases a closing sentence is recognised by
FollowUpPhrases ==
    {"what about you", "how about", "what do you think", "any thoughts",
     "your experience", "your opinion"}

\* the positions of the sentences holding a follow-up phrase
FollowUps ==
    {i \in 1..Len(sentences) :
        \E phrase \in FollowUpPhrases : Includes(ToLowerCase(sentences[i]), phrase)}

\* the number of sentences of more than 10 characters
LongSentences == Cardinality({i \in 1..Len(sentences) : Len(sentences[i]) > 10})

\* C26: the last line of a conversation rendering is the closing marker
\* followed by the first sentence holding a follow-up phrase, capitalised,
\* if there is one; otherwise it is the canned follow-up of the first of
\* hasQuestion, isCasual, isThoughtful that holds, or the default one. The
\* main block, present from three long sentences on, is led in by the
\* marker of the first of hasQuestion, isCasual that holds, or the default.
C26_ClosingAndLeadIn ==
    applied = 2 =>
        LET hasQuestion == Includes(SearchedText, "?")
            isCasual == \E w \in {"cool", "awesome", "great"} : Includes(SearchedText, w)
            isThoughtful == \E w \in {"interesting", "fascinating", "consider"} :
                                Includes(SearchedText, w)
            first == CHOOSE i \in FollowUps : \A j \in FollowUps : i <= j
            leadIns == <<Cardinality(Occurrences(out, "^q Here's what I think:\n")),
                         Cardinality(Occurrences(out, "^j ")),
                         Cardinality(Occurrences(out, "^p "))
                            - Cardinality(Occurrences(out, "^p My Perspective:\n"))>>
        IN /\ LastLine(out) =
                 IF FollowUps # {}
                     THEN "^b " \o ToUpperCase(CharAt(sentences[first], 1))
                            \o SubSeq(sentences[first], 2, Len(sentences[first]))
                 ELSE IF hasQuestion
                     THEN "^b What are your thoughts on this? I'd love to hear your perspective!"
                 ELSE IF isCasual
                     THEN "^b How about you? What's your take on this?"
                 ELSE IF isThoughtful
                     THEN "^b What do you think about this? I'm curious about your viewpoint."
                 ELSE "^b What are your thoughts? I'd love to continue this conversation!"
           /\ leadIns = IF LongSentences < 3 THEN <<0, 0, 0>>
                        ELSE IF hasQuestion THEN <<1, 0, 0>>
                        ELSE IF isCasual THEN <<0, 1, 0>>
                        ELSE <<0, 0, 1>>

\* a casual and thoughtful list with a question and no follow-up phrase: the
\* question decides both the lead-in and the closing
C26_Witness ==
    /\ applied = 2
    /\ sentences = <<"Is the app cool?", "plain words only", "we consider it fully",
                     "we like the good help here">>
    /\ FollowUps = {}
    /\ LastLine(out) = "^b What are your thoughts on this? I'd love to hear your perspective!"
    /\ Includes(out, "^q Here's what I think:\nWe consider it fully ")

\* a list with two follow-up sentences: the closing reuses the first
C26_WitnessReuse ==
    /\ applied = 2
    /\ FollowUps = {2, 3}
    /\ LastLine(out) = "^b Any thoughts on the hotel"


-----------------------------------------------------------------------------
(* Question marks in the pipeline *)

\* C27: whatever string cleanAIResponse is given, no sentence of the split
\* holds a question mark: the questions bucket is empty, statements is the
\* whole sentence list, the conversation context has hasQuestion false, and
\* the output holds neither the lead-in of the question branch nor its
\* canned follow-up.
C27_QuestionBranchUnreachable ==
    applied >= 1 =>
        /\ \A i \in 1..Len(sentences) : ~Includes(sentences[i], "?")
        /\ structure.questions = <<>>
        /\ structure.statements = sentences
        /\ ~analyzeConversationContext(sentences).hasQuestion
        /\ ~Includes(out, "Here's what I think:")
        /\ ~Includes(out, "What are your thoughts on this? I'd love to hear your perspective!")

\* a conversation with two questions, cleaned once: four sentences without a
\* question mark, the casual lead-in and the casual follow-up
C27_Witness ==
    /\ applied = 1
    /\ text = RawConversation
    /\ structure.type = "conversation"
    /\ sentences = <<"Hello there, how is it going", "The app is really cool",
                     "Where are you headed today", "Tell me more about it">>
    /\ Includes(out, "^j Where are you headed today Tell me more about it ")
    /\ LastLine(out) = "^b How about you? What's your take on this?"


-----------------------------------------------------------------------------
(* The order of the sections *)

\* the markers of the sections of each renderer, in the order of its source:
\* the heading of a headed section, the leading symbol of a single line
SectionOrder ==
    [review |-> <<"^a ", "+ What I Really Enjoyed:\n", "^w Areas for Improvement:\n",
                  "^s Memorable Highlights:\n", "^h Atmosphere & Environment:\n",
                  "^v Value & Pricing:\n", "^i Recommendations:\n", "^t ">>,
     analysis |-> <<"^x Executive Summary:\n", "^f Detailed Findings:\n",
                    "^j Sentiment Analysis:\n", "-Specific Insights:\n",
                    "^i Strategic Recommendations:\n", "^r Action Items & Next Steps:\n",
                    "^g Impact Assessment:\n">>,
     customer_service |-> <<"^k ", "^c Understanding Your Situation:\n",
                            "^z Immediate Solutions:\n", "^r Long-term Improvements:\n",
                            "^y Goodwill Gestures:\n", "^d ">>,
     general |-> <<"^n Main Point:\n", "^c Detailed Explanation:\n", "^i Key Insights:\n",
                   "^f Practical Examples:\n", "^t ">>]

\* the markers of order occur in s at most once each, and those that occur
\* occur in the order of the list
InSectionOrder(s, order) ==
    /\ \A k \in 1..Len(order) : Cardinality(Occurrences(s, order[k])) <= 1
    /\ \A k, l \in 1..Len(order) :
          k < l => \A i \in Occurrences(s, order[k]) :
                      \A j \in Occurrences(s, order[l]) : i < j

\* the number of markers of order that occur in s
SectionsIn(s, order) ==
    Cardinality({k \in 1..Len(order) : Occurrences(s, order[k]) # {}})

\* C24: the sections of a review, analysis, customer_service or general
\* output appear at most once each and in the order of the renderer's
\* section list.
C24_SectionsInOrder ==
    applied = 1 /\ structure.type \in DOMAIN SectionOrder =>
        InSectionOrder(out, SectionOrder[structure.type])

\* a review with all eight sections
C24_Witness ==
    /\ applied = 1
    /\ structure.type = "review"
    /\ SectionsIn(out, SectionOrder.review) = 8
    /\ Includes(out, "^a We went good bad notable vibe price could food a.\n\n+ What")

\* an analysis with the six sections after the summary, a customer service
\* reply with its six and a general reply with its five
C24_WitnessAnalysis ==
    applied = 1 /\ structure.type = "analysis" /\ SectionsIn(out, SectionOrder.analysis) = 6

C24_WitnessService ==
    /\ applied = 1
    /\ structure.type = "customer_service"
    /\ SectionsIn(out, SectionOrder.customer_service) = 6

C24_WitnessGeneral ==
    applied = 1 /\ structure.type = "general" /\ SectionsIn(out, SectionOrder.general) = 5

-----------------------------------------------------------------------------
(* utils/conversationUtils.js: the context of a conversation history *)

\* a chat message
Message(role, content) == [role |-> role, content |-> content]

\* hasTopicContinuity(prevText, currentText)
hasTopicContinuity(prevText, currentText) ==
    \E topic \in {"ai", "technology", "future", "personal", "help", "question", "think", "feel"} :
        Includes(prevText, topic) /\ Includes(currentText, topic)

\* analyzeConversationFlow(history).  The loop sets tone to enthusiastic at a
\* message with '!' or amazing and to curious at one with '?' while tone is
\* still neutral, so the last value is enthusiastic if any message has the
\* first mark, else curious if any has the second
analyzeConversationFlow(history) ==
    LET lower == [i \in 1..Len(history) |-> ToLowerCase(history[i].content)]
        Some(words) == \E i \in 1..Len(history) : IncludesAny(lower[i], words)
    IN [topics |->
            (IF Some({"ai", "technology"}) THEN {"technology"} ELSE {})
               \cup (IF Some({"future", "tomorrow"}) THEN {"future"} ELSE {})
               \cup (IF Some({"personal", "day"}) THEN {"personal"} ELSE {})
               \cup (IF Some({"help", "question"}) THEN {"assistance"} ELSE {}),
        tone |-> IF Some({"!", "amazing"}) THEN "enthusiastic"
                 ELSE IF Some({"?"}) THEN "curious"
                 ELSE "neutral",
        complexity |-> IF \E i \in 1..Len(history) : Len(SplitChar(lower[i], " ")) > 20
                       THEN "detailed" ELSE "simple",
        engagement |-> IF Some({"what about you", "your thoughts"}) THEN "high" ELSE "medium",
        continuity |-> [i \in 1..(Len(history) - 1) |->
                           hasTopicContinuity(lower[i], lower[i + 1])]]

\* enhanceUserMessage with its hints stacked instead of chosen
enhanceUserMessageStacking(content, context) ==
    (IF Len(context.continuity) > 0 /\ ~context.continuity[Len(context.continuity)]
        THEN "[New topic] " ELSE "")
       \o (IF context.engagement = "high" /\ Includes(content, "?")
              THEN "[Following up on your question] " ELSE "")
       \o (IF "technology" \in context.topics /\ Includes(ToLowerCase(content), "ai")
              THEN "[Continuing our AI discussion] " ELSE "")
       \o content

\* enhanceUserMessage(content, context); continuity[length - 1] of an empty
\* list is undefined, which is not false
enhanceUserMessage(content, context) ==
    IF "technology" \in context.topics /\ Includes(ToLowerCase(content), "ai")
        THEN "[Continuing our AI discussion] " \o content
    ELSE IF context.engagement = "high" /\ Includes(content, "?")
        THEN "[Following up on your question] " \o content
    ELSE IF Len(context.continuity) > 0 /\ ~context.continuity[Len(context.continuity)]
        THEN "[New topic] " \o content
    ELSE content

-----------------------------------------------------------------------------
(* services/llamaService.js: generateConversationalResponse and
   handleAPIError; routes/llama.js: POST /llama *)

\* the system message of generateConversationalResponse; its first sentence
\* stands for the whole prompt
ConversationSystemMessage ==
    Message("system", "You are a thoughtful, intelligent AI assistant with deep reasoning "
                          \o "capabilities and excellent conversational skills.")

\* conversationHistory.slice(-8)
RecentHistory(history) ==
    SubSeq(history, IF Len(history) > 8 THEN Len(history) - 7 ELSE 1, Len(history))

\* the message list with every user message of the window enhanced
BuildMessagesEnhancingFirst(userText, history) ==
    LET recentHistory == RecentHistory(history)
        conversationContext == analyzeConversationFlow(recentHistory)
    IN <<ConversationSystemMessage>>
          \o [index \in 1..Len(recentHistory) |->
                IF recentHistory[index].role = "user"
                THEN Message("user", enhanceUserMessage(recentHistory[index].content,
                                                        conversationContext))
                ELSE recentHistory[index]]
          \o <<Message("user", userText)>>

\* the messages generateConversationalResponse posts: the system message, the
\* recent history with the user messages after the first enhanced, the text
BuildMessages(userText, history) ==
    LET recentHistory == RecentHistory(history)
        conversationContext == analyzeConversationFlow(recentHistory)
    IN <<ConversationSystemMessage>>
          \o [index \in 1..Len(recentHistory) |->
                IF recentHistory[index].role = "user" /\ index > 1
                THEN Message("user", enhanceUserMessage(recentHistory[index].content,
                                                        conversationContext))
                ELSE Message(recentHistory[index].role, recentHistory[index].content)]
          \o <<Message("user", userText)>>

\* an error object as the two catch blocks read it: status 0 and code
\* "undefined" stand for a property the object does not have
ErrorObject(status, code) == [status |-> status, code |-> code]

\* handleAPIError(error): a plain object with success, error and code, and
\* no status
handleAPIError(error) ==
    IF error.status = 401 \/ error.code = "authentication_error"
        THEN [success |-> FALSE, status |-> 0, code |-> "INVALID_API_KEY"]
    ELSE IF error.code = "insufficient_quota"
        THEN [success |-> FALSE, status |-> 0, code |-> "QUOTA_EXCEEDED"]
    ELSE IF error.code = "rate_limit_exceeded"
        THEN [success |-> FALSE, status |-> 0, code |-> "RATE_LIMIT_EXCEEDED"]
    ELSE [success |-> FALSE, status |-> 0, code |-> "LLAMA_API_ERROR"]

\* an HTTP answer of the route
Answer(status, success, code) == [status |-> status, success |-> success, code |-> code]

\* the catch block of POST /llama, given the value the service threw
RouteCatch(error) ==
    IF error.status = 401 \/ error.code = "authentication_error"
        THEN Answer(401, FALSE, "INVALID_API_KEY")
    ELSE IF error.code = "insufficient_quota"
        THEN Answer(429, FALSE, "QUOTA_EXCEEDED")
    ELSE IF error.code = "rate_limit_exceeded"
        THEN Answer(429, FALSE, "RATE_LIMIT_EXCEEDED")
    ELSE Answer(500, FALSE, "LLAMA_API_ERROR")

\* inputText.trim().replace(/[<>]/g, '')
Sanitize(inputText) ==
    LET trimmed == Trim(inputText)
        keep == {i \in 1..Len(trimmed) : CharAt(trimmed, i) \notin {"<", ">"}}
    IN ConcatAll([k \in 1..Cardinality(keep) |->
           CharAt(trimmed, CHOOSE i \in keep : Cardinality({j \in keep : j <= i}) = k)])

\* the validation of POST /llama: the answer it returns early, NoReply if none.
\* The text and the key of a request are strings; an absent one is ""
RouteValidation(req) ==
    IF req.text = "" THEN Answer(400, FALSE, "INVALID_INPUT")
    ELSE IF req.apiKey = "" THEN Answer(400, FALSE, "INVALID_API_KEY")
    ELSE IF Len(req.text) > 4000 THEN Answer(400, FALSE, "TEXT_TOO_LONG")
    ELSE NoReply

-----------------------------------------------------------------------------
(* JSON values, JSON.stringify and JSON.parse *)

\* a JSON value: its type, the text of a number, boolean or string, and the
\* keys and members of an object or the items of an array
JSON(t, s, keys, items) == [t |-> t, s |-> s, keys |-> keys, items |-> items]

JSONNull == JSON("null", "null", <<>>, <<>>)
JSONUndefined == JSON("undefined", "", <<>>, <<>>)
JSONBoolean(b) == JSON("boolean", IF b THEN "true" ELSE "false", <<>>, <<>>)
\* a number, held as the text JSON.stringify prints for it
JSONNumber(printed) == JSON("number", printed, <<>>, <<>>)
JSONString(s) == JSON("string", s, <<>>, <<>>)
JSONArray(items) == JSON("array", "", <<>>, items)
JSONObject(keys, items) == JSON("object", "", keys, items)

\* value[key]: a member of an object; undefined for a missing member and
\* for a key that a string, number or boolean does not have
PropertyOf(value, key) ==
    IF value.t = "object" /\ \E i \in 1..Len(value.keys) : value.keys[i] = key
    THEN value.items[CHOOSE i \in 1..Len(value.keys) : value.keys[i] = key]
    ELSE JSONUndefined

\* value || default
OrElse(value, default) ==
    IF \/ value.t \in {"undefined", "null"}
       \/ value.t = "boolean" /\ value.s = "false"
       \/ value.t = "number" /\ value.s = "0"
       \/ value.t = "string" /\ value.s = ""
    THEN default ELSE value

\* { ...base, ...over }: the keys of base in their order with the members
\* of over in their place, then the other keys of over; null, a number and
\* a boolean spread to nothing
Spread(base, over) ==
    IF over.t # "object" THEN base
    ELSE LET Fresh(i) == \A j \in 1..Len(base.keys) : base.keys[j] # over.keys[i]
             fresh == {i \in 1..Len(over.keys) : Fresh(i)}
             added == [k \in 1..Cardinality(fresh) |->
                         CHOOSE i \in fresh : Cardinality({j \in fresh : j <= i}) = k]
         IN JSONObject(base.keys \o [k \in 1..Len(added) |-> over.keys[added[k]]],
                       [j \in 1..Len(base.keys) |->
                           LET member == PropertyOf(over, base.keys[j])
                           IN IF member.t = "undefined" THEN base.items[j] ELSE member]
                          \o [k \in 1..Len(added) |-> over.items[added[k]]])

\* JSON.stringify(value); the strings of the model hold no character that
\* needs an escape
RECURSIVE JSONStringify(_)
JSONStringify(value) ==
    IF value.t = "string" THEN "\"" \o value.s \o "\""
    ELSE IF value.t = "array"
        THEN "[" \o Join([i \in 1..Len(value.items) |-> JSONStringify(value.items[i])], ",") \o "]"
    ELSE IF value.t = "object"
        THEN "{" \o Join([i \in 1..Len(value.keys) |->
                             "\"" \o value.keys[i] \o "\":" \o JSONStringify(value.items[i])], ",")
                 \o "}"
    ELSE value.s

\* the texts of a value that the provider may send: the compact text, and
\* the compact text with white space around it
JSONTexts(value) == {JSONStringify(value), " " \o JSONStringify(value) \o "\n"}

\* the number n in decimal digits, 0 <= n <= 99
NumberText(n) ==
    IF n < 10 THEN CharAt("0123456789", n + 1)
    ELSE CharAt("0123456789", (n \div 10) + 1) \o CharAt("0123456789", (n % 10) + 1)

-----------------------------------------------------------------------------
(* services/llamaService.js: the JSON payloads of analyzeVoiceInput and
   generateLocationSuggestions *)

VoiceKeys ==
    <<"sentiment", "confidence", "keyPoints", "topics", "suggestions", "tone",
      "actionItems", "summary", "wordCount", "speakingPace">>

\* transcript.split(' ').length
WordCount(transcript) == JSONNumber(NumberText(Len(SplitChar(transcript, " "))))

\* the fallback analysis of the catch block around JSON.parse
VoiceFallback(transcript) ==
    JSONObject(VoiceKeys,
               <<JSONString("neutral"), JSONNumber("0.5"),
                 JSONArray(<<JSONString("Content analyzed")>>),
                 JSONArray(<<JSONString("General")>>),
                 JSONArray(<<JSONString("Consider providing more context")>>),
                 JSONString("neutral"),
                 JSONArray(<<JSONString("Review transcript")>>),
                 JSONString("Voice content was processed"),
                 WordCount(transcript), JSONString("normal")>>)

\* defaultAnalysis
VoiceDefault(transcript) ==
    JSONObject(VoiceKeys,
               <<JSONString("neutral"), JSONNumber("0.5"), JSONArray(<<>>), JSONArray(<<>>),
                 JSONArray(<<>>), JSONString("neutral"), JSONArray(<<>>),
                 JSONString("Analysis completed"), WordCount(transcript),
                 JSONString("normal")>>)

AnalysisKeys ==
    <<"locationMentioned", "locationType", "specificPlace", "cityOrArea", "confidence">>

\* the fallback suggestions of the catch block around JSON.parse; 0.0 prints as 0
LocationFallback ==
    JSONObject(<<"suggestions", "analysis">>,
               <<JSONArray(<<>>),
                 JSONObject(AnalysisKeys,
                            <<JSONBoolean(FALSE), JSONString("unknown"), JSONNull, JSONNull,
                              JSONNumber("0")>>)>>)

\* the JSON values the provider answers with in the model
PartialVoiceAnalysis ==
    JSONObject(<<"sentiment", "confidence", "mood">>,
               <<JSONString("positive"), JSONNumber("0.9"), JSONString("calm")>>)

CafeSuggestions ==
    JSONObject(<<"suggestions", "analysis">>,
               <<JSONArray(<<JSONObject(<<"name", "type">>,
                                        <<JSONString("Cafe Roma"), JSONString("restaurant")>>)>>),
                 JSONObject(AnalysisKeys,
                            <<JSONBoolean(TRUE), JSONString("restaurant"),
                              JSONString("Cafe Roma"), JSONNull, JSONNumber("0.9")>>)>>)

HotelSuggestions ==
    JSONObject(<<"suggestions", "analysis">>,
               <<JSONArray(<<JSONObject(<<"name">>, <<JSONString("Grand Hotel")>>),
                             JSONObject(<<"name">>, <<JSONString("Sea View")>>)>>),
                 JSONObject(<<"locationMentioned", "locationType">>,
                            <<JSONBoolean(TRUE), JSONString("hotel")>>)>>)

JSONUniverse ==
    {JSONObject(<<>>, <<>>), JSONNull, JSONNumber("42"), PartialVoiceAnalysis,
     CafeSuggestions, HotelSuggestions}

\* JSON.parse(source): the value source is a text of, or a SyntaxError.  Only
\* texts of the values of JSONUniverse and texts that are not JSON are parsed
JSONParse(source) ==
    LET values == {value \in JSONUniverse : source \in JSONTexts(value)}
    IN IF values = {} THEN [ok |-> FALSE, value |-> JSONUndefined]
       ELSE [ok |-> TRUE, value |-> CHOOSE value \in values : TRUE]

\* a service call that returned
Delivered(op, response, suggestions, analysisPayload) ==
    [op |-> op, threw |-> FALSE, success |-> TRUE, response |-> response,
     suggestions |-> suggestions, analysis |-> analysisPayload, code |-> ""]

\* a service call that threw the object handleAPIError returned
ThrownByService(op, error) ==
    [op |-> op, threw |-> TRUE, success |-> FALSE, response |-> JSONUndefined,
     suggestions |-> JSONUndefined, analysis |-> JSONUndefined,
     code |-> handleAPIError(error).code]

\* cleanAIResponse(t), for a t that is a string; t is evaluated once, before
\* the cleaner reads its characters
Cleaned(t) ==
    CHOOSE cleaned \in {JSONString(IF v = "" THEN v ELSE cleanAIResponse(v)) : v \in {t}} : TRUE

\* generateConversationalResponse after the provider's answer
ConversationalResponse(content) ==
    Delivered("conversation",
              Cleaned(IF content = "" THEN "No response generated" ELSE content),
              JSONUndefined, JSONUndefined)

\* analyzeVoiceInput after the provider's answer
VoiceAnalysis(transcript, content) ==
    LET parsed == JSONParse(IF content = "" THEN "{}" ELSE content)
        analysisData == IF parsed.ok THEN parsed.value ELSE VoiceFallback(transcript)
        finalAnalysis == Spread(VoiceDefault(transcript), analysisData)
        cleanedResponse == Cleaned(JSONStringify(finalAnalysis))
    IN Delivered("voice", JSONUndefined, JSONUndefined, cleanedResponse)

\* generateLocationSuggestions after the provider's answer
LocationSuggestions(content) ==
    LET parsed == JSONParse(IF content = "" THEN "No response generated" ELSE content)
        suggestions == IF parsed.ok THEN parsed.value ELSE LocationFallback
        cleanedResponse == Cleaned(JSONStringify(suggestions))
    IN Delivered("location", JSONUndefined,
                 OrElse(PropertyOf(cleanedResponse, "suggestions"), JSONArray(<<>>)),
                 OrElse(PropertyOf(cleanedResponse, "analysis"), JSONObject(<<>>, <<>>)))

-----------------------------------------------------------------------------
(* The requests to the Llama service, the provider, and the answers *)

\* two conversations; a history is a run of consecutive messages of one
TechScript ==
    <<Message("user", "tell me about ai"), Message("assistant", "ai is a technology"),
      Message("user", "is ai safe?"), Message("assistant", "what about you"),
      Message("user", "why ask me?"), Message("assistant", "just curious"),
      Message("user", "fine then"), Message("assistant", "good"),
      Message("user", "bye now"), Message("assistant", "see you")>>

DayScript ==
    <<Message("user", "good morning"), Message("assistant", "what a day"),
      Message("user", "my day was long"), Message("assistant", "your thoughts matter"),
      Message("user", "do they?"), Message("user", "i feel ok"),
      Message("system", "be brief"), Message("assistant", "i think so"),
      Message("user", "help me think"), Message("user", "the future")>>

Histories ==
    {<<>>} \cup {SubSeq(script, a, b) :
                    script \in {TechScript, DayScript}, a \in 1..10, b \in 1..10}

ConversationRequests ==
    {[op |-> "conversation", text |-> t, apiKey |-> "key", history |-> h] :
         t \in {"hi there", " what <b>about</b> ai? "}, h \in Histories}
       \cup {[op |-> "conversation", text |-> "", apiKey |-> "key", history |-> <<>>],
             [op |-> "conversation", text |-> "hi there", apiKey |-> "", history |-> <<>>]}

PayloadRequests ==
    {[op |-> o, text |-> t, apiKey |-> "key", history |-> <<>>] :
         o \in {"voice", "location"}, t \in {"the food at Cafe Roma was great", "hello"}}

\* the completion texts of the provider: "" is a completion without content
Completions(op) ==
    IF op = "conversation"
        THEN {"", "Hello there! How is it going?", "The food was great. I recommend it."}
    ELSE {"", "Sorry, I cannot answer in JSON.", "{\"sentiment\": \"positive\""}
            \cup UNION {JSONTexts(value) : value \in JSONUniverse}

\* the errors of the provider call
UpstreamErrors ==
    {ErrorObject(401, "ERR_BAD_REQUEST"), ErrorObject(0, "authentication_error"),
     ErrorObject(0, "insufficient_quota"), ErrorObject(429, "rate_limit_exceeded"),
     ErrorObject(500, "ERR_BAD_RESPONSE"), ErrorObject(0, "ECONNABORTED"),
     ErrorObject(0, "undefined")}

InitLlama ==
    /\ request \in ConversationRequests \cup PayloadRequests
    /\ upstream = NoUpstream
    /\ delivered = NoLlamaResult
    /\ reply = NoReply
    /\ SelectorIdle
    /\ FormatterIdle
    /\ DetectorIdle
    /\ AnalyzerIdle

\* POST /llama up to the await of the provider call: the validation, the
\* sanitizing, and generateConversationalResponse up to axios.post
PostLlama ==
    /\ request.op = "conversation"
    /\ upstream.state = "idle"
    /\ reply = NoReply
    /\ IF RouteValidation(request) # NoReply
       THEN /\ reply' = RouteValidation(request)
            /\ UNCHANGED upstream
       ELSE /\ upstream' = [state |-> "pending",
                            messages |-> BuildMessages(Sanitize(request.text), request.history)]
            /\ UNCHANGED reply
    /\ UNCHANGED <<request, delivered, selectorVars, formatterVars, detectorVars, analyzerVars>>

\* analyzeVoiceInput or generateLocationSuggestions up to axios.post; the
\* transcript stands for the prompt built around it
CallService ==
    /\ request.op \in {"voice", "location"}
    /\ upstream.state = "idle"
    /\ upstream' = [state |-> "pending",
                    messages |-> <<Message("system", request.op),
                                   Message("user", request.text)>>]
    /\ UNCHANGED <<request, delivered, reply, selectorVars, formatterVars, detectorVars,
                   analyzerVars>>

\* the provider answers with a completion
Complete ==
    /\ upstream.state = "pending"
    /\ \E content \in Completions(request.op) :
          upstream' = [state |-> "answered", messages |-> upstream.messages,
                       content |-> content]
    /\ UNCHANGED <<request, delivered, reply, selectorVars, formatterVars, detectorVars,
                   analyzerVars>>

\* the provider call fails
Refuse ==
    /\ upstream.state = "pending"
    /\ \E error \in UpstreamErrors :
          upstream' = [state |-> "failed", messages |-> upstream.messages, error |-> error]
    /\ UNCHANGED <<request, delivered, reply, selectorVars, formatterVars, detectorVars,
                   analyzerVars>>

\* the rest of the service call after the await, and for POST /llama the
\* rest of the route: res.json(result), or the catch block
Settle ==
    /\ upstream.state \in {"answered", "failed"}
    /\ delivered = NoLlamaResult
    /\ \E outcome \in
              {IF upstream.state = "failed" THEN ThrownByService(request.op, upstream.error)
               ELSE IF request.op = "conversation" THEN ConversationalResponse(upstream.content)
               ELSE IF request.op = "voice" THEN VoiceAnalysis(request.text, upstream.content)
               ELSE LocationSuggestions(upstream.content)} :
          /\ delivered' = outcome
          /\ reply' = IF request.op # "conversation" THEN reply
                      ELSE IF outcome.threw
                          THEN RouteCatch(ErrorObject(0, outcome.code))
                      ELSE Answer(200, TRUE, "")
    /\ UNCHANGED <<request, upstream, selectorVars, formatterVars, detectorVars, analyzerVars>>

NextLlama == PostLlama \/ CallService \/ Complete \/ Refuse \/ Settle

SpecLlama == InitLlama /\ [][NextLlama]_vars


-----------------------------------------------------------------------------
(* The conversation history in the messages posted upstream *)

\* the bracketed hints enhanceUserMessage may put in front of a message
ContextHints ==
    {"[Continuing our AI discussion] ", "[Following up on your question] ", "[New topic] "}

\* C30: the messages generateConversationalResponse posts for a history of
\* n messages are one system message, the last min(8, n) history messages
\* in their order and with their roles, and the user text last, at most 10
\* in all; the first message of the window and every message that is not a
\* user message keep their content, and a later user message keeps it or
\* gets exactly one bracketed hint in front.
C30_HistoryWindow ==
    request.op = "conversation" /\ upstream.state # "idle" =>
        LET n == Len(request.history)
            w == IF n < 8 THEN n ELSE 8
            sent == upstream.messages
        IN /\ Len(sent) = w + 2
           /\ Len(sent) <= 10
           /\ sent[1].role = "system"
           /\ sent[w + 2] = [role |-> "user", content |-> Sanitize(request.text)]
           /\ \A i \in 1..w :
                 LET original == request.history[n - w + i]
                     forwarded == sent[i + 1]
                 IN /\ forwarded.role = original.role
                    /\ i = 1 \/ original.role # "user" =>
                          forwarded.content = original.content
                    /\ \/ forwarded.content = original.content
                       \/ \E hint \in ContextHints :
                             forwarded.content = hint \o original.content

\* a history of ten messages: the window starts at the third, a user
\* message about ai that is forwarded as it is, and two later user messages
\* get a hint each
C30_Witness ==
    /\ request.op = "conversation"
    /\ request.history = TechScript
    /\ upstream.state = "pending"
    /\ Len(upstream.messages) = 10
    /\ upstream.messages[2] = [role |-> "user", content |-> "is ai safe?"]
    /\ upstream.messages[4].content = "[Following up on your question] why ask me?"
    /\ upstream.messages[6].content = "[New topic] fine then"
    /\ upstream.messages[10].content = "what babout/b ai?"

\* a history of three messages, all of them forwarded, the third with the
\* hint of the ai discussion
C30_WitnessShort ==
    /\ request.op = "conversation"
    /\ Len(request.history) = 3
    /\ upstream.state = "pending"
    /\ Len(upstream.messages) = 5
    /\ upstream.messages[4].content = "[Continuing our AI discussion] is ai safe?"


-----------------------------------------------------------------------------
(* The answers of POST /llama to provider failures *)

\* the provider call of POST /llama has failed and the route has answered
FailureAnswered ==
    request.op = "conversation" /\ upstream.state = "failed" /\ delivered # NoLlamaResult

\* C25: a provider failure reaches the client with its error code: an
\* authentication error (status 401 or code authentication_error) as 401
\* INVALID_API_KEY, insufficient_quota as 429 QUOTA_EXCEEDED,
\* rate_limit_exceeded as 429 RATE_LIMIT_EXCEEDED, any other as 500
\* LLAMA_API_ERROR.
C25_ErrorCodesReachClient ==
    FailureAnswered =>
        LET error == upstream.error
        IN IF error.status = 401 \/ error.code = "authentication_error"
               THEN reply.status = 401 /\ reply.code = "INVALID_API_KEY"
           ELSE IF error.code = "insufficient_quota"
               THEN reply.status = 429 /\ reply.code = "QUOTA_EXCEEDED"
           ELSE IF error.code = "rate_limit_exceeded"
               THEN reply.status = 429 /\ reply.code = "RATE_LIMIT_EXCEEDED"
           ELSE reply.status = 500 /\ reply.code = "LLAMA_API_ERROR"

\* the provider refused the key with status 401, the service threw the
\* object with code INVALID_API_KEY, and the route answered 500
C25_Witness ==
    /\ FailureAnswered
    /\ upstream.error.status = 401
    /\ delivered.threw
    /\ delivered.code = "INVALID_API_KEY"
    /\ reply.status = 500
    /\ reply.code = "LLAMA_API_ERROR"

-----------------------------------------------------------------------------
(* The JSON payloads delivered by the service *)

\* the provider of a voice or location call has answered and the call returned
PayloadDelivered(op) ==
    request.op = op /\ upstream.state = "answered" /\ delivered # NoLlamaResult

\* payload has the member key with the given value: as a member of an
\* object, or as the text of the member in a string
Carries(payload, key, value) ==
    \/ payload.t = "object" /\ PropertyOf(payload, key) = value
    \/ payload.t = "string"
          /\ Includes(payload.s, "\"" \o key \o "\":" \o JSONStringify(value))

\* C21: when the completion is not valid JSON the call still returns
\* success true, and the payload carries the values of the fallback record:
\* for a voice analysis sentiment neutral, confidence 0.5, tone neutral and
\* speakingPace normal; for location suggestions an empty suggestions list
\* and an analysis with locationMentioned false, locationType unknown,
\* specificPlace null, cityOrArea null and confidence 0.
C21_ParseFailureFallsBack ==
    /\ PayloadDelivered("voice") /\ upstream.content # "" /\ ~JSONParse(upstream.content).ok =>
          /\ ~delivered.threw /\ delivered.success
          /\ Carries(delivered.analysis, "sentiment", JSONString("neutral"))
          /\ Carries(delivered.analysis, "confidence", JSONNumber("0.5"))
          /\ Carries(delivered.analysis, "tone", JSONString("neutral"))
          /\ Carries(delivered.analysis, "speakingPace", JSONString("normal"))
    /\ PayloadDelivered("location") /\ upstream.content # "" /\ ~JSONParse(upstream.content).ok =>
          /\ ~delivered.threw /\ delivered.success
          /\ delivered.suggestions = JSONArray(<<>>)
          /\ Carries(delivered.analysis, "locationMentioned", JSONBoolean(FALSE))
          /\ Carries(delivered.analysis, "locationType", JSONString("unknown"))
          /\ Carries(delivered.analysis, "specificPlace", JSONNull)
          /\ Carries(delivered.analysis, "cityOrArea", JSONNull)
          /\ Carries(delivered.analysis, "confidence", JSONNumber("0"))

\* a completion that is not JSON, after which the location call returns
\* success true with an analysis that has no member at all
C21_Witness ==
    /\ PayloadDelivered("location")
    /\ upstream.content = "Sorry, I cannot answer in JSON."
    /\ delivered.success
    /\ delivered.suggestions = JSONArray(<<>>)
    /\ delivered.analysis = JSONObject(<<>>, <<>>)

\* the same completion, after which the voice call returns success true
\* with a string in which the sentence splitter has cut the confidence
C21_WitnessVoice ==
    /\ PayloadDelivered("voice")
    /\ upstream.content = "Sorry, I cannot answer in JSON."
    /\ delivered.success
    /\ delivered.analysis.t = "string"
    /\ Includes(delivered.analysis.s, "^j Sentiment Analysis:\n   @ {\"sentiment\":\"neutral\",\"confidence\":0.\n   @ 5,")
    /\ ~Includes(delivered.analysis.s, "\"confidence\":0.5")

\* C28: when the completion of a location call is valid JSON with a
\* suggestions list and an analysis object, the suggestions and analysis
\* the call returns are the parsed list and the parsed object.
C28_ParsedSuggestionsReachCaller ==
    PayloadDelivered("location") /\ JSONParse(upstream.content).ok =>
        LET parsed == JSONParse(upstream.content).value
        IN PropertyOf(parsed, "suggestions").t = "array"
              /\ PropertyOf(parsed, "analysis").t = "object" =>
                 /\ delivered.suggestions = PropertyOf(parsed, "suggestions")
                 /\ delivered.analysis = PropertyOf(parsed, "analysis")

\* a completion with one suggestion and a full analysis, after which the
\* call returns an empty list and an empty object
C28_Witness ==
    /\ PayloadDelivered("location")
    /\ upstream.content = JSONStringify(CafeSuggestions)
    /\ Len(PropertyOf(JSONParse(upstream.content).value, "suggestions").items) = 1
    /\ delivered.success
    /\ delivered.suggestions = JSONArray(<<>>)
    /\ delivered.analysis = JSONObject(<<>>, <<>>)

====
